---- MODULE Spec2Model ----
(***************************************************************************)
(* Pre-trading compliance engine (core/engine.py, core/rules.py,           *)
(* core/models.py) and the batch-validation handler of app.py.             *)
(*                                                                         *)
(* Money is an integer number of value units; one unit is 1e-9, the        *)
(* tolerance of the sale validation, so that Tol == 1.                     *)
(***************************************************************************)
EXTENDS Integers, Sequences, FiniteSets, TLC

VARIABLES
    pc,        \* position of the running call / handler
    heap,      \* DataFrame objects: heap.arg is the object passed as df, heap.copy the one df.copy() makes
    dfp,       \* the object the local name dfp of aplicar_ordens_no_df is bound to
    df0,       \* contents of the argument df when the call started (never assigned afterwards)
    fundo,     \* the target fund
    ordens,    \* the order list
    i,         \* loop position (index of the next element)
    ret,       \* the value returned by the call
    erro,      \* the error raised by the call ("" when none)
    ordem,     \* the order handed to the rule evaluators
    config,    \* aplicar_regras: the configuration document; one evaluator: its limites_regra
    resultados,\* the list aplicar_regras builds
    avaliador, \* the evaluator under evaluation
    session_state,      \* st.session_state: df, orders_df, permitir_ativo_novo, cad_novos, resultados, pl_total, fundo, ordens_lote
    invalidos,          \* the handler's count of rows left out
    novos_para_inserir, \* the handler's list of instruments to add to the snapshot
    ui,                 \* what the handler has put on the page
    chamadas,           \* history: the calls the handler made into core/engine.py
    yaml_path,          \* the rules file found on disk ("" when there is none); config holds its document
    today               \* the wall clock: the date date.today() returns, <<year, month, day>>

vars ==
    <<pc, heap, dfp, df0, fundo, ordens, i, ret, erro, ordem, config, resultados, avaliador,
      session_state, invalidos, novos_para_inserir, ui, chamadas, yaml_path, today>>

(* the variables only the batch handler uses *)
soLote == <<session_state, invalidos, novos_para_inserir, ui, chamadas, yaml_path>>

(* the variables the position simulator does not use *)
foraOrdens == <<ordem, config, resultados, avaliador, soLote, today>>
(* the variables the rule runner and the evaluators do not use *)
foraRegras == <<heap, dfp, fundo, ordens, soLote, today>>
(* the variables the batch handler does not use *)
foraLote == <<heap, dfp, df0, ret, erro, ordem, resultados, avaliador, today>>

--------------------------------------------------------------------------
(* Bounds and value pools                                                  *)

MaxOrdens == 2

Funds == {"ALPHA", "BETA"}
Ativos == {"X", "Y"}
Tipos == {"compra", "venda"}
Qtds == {1, 2}
Precos == {3}

COL_FUNDO == "nome do fundo"
COL_ATIVO == "ativo"
COL_VALOR == "valor"
ColunasObrigatorias == <<COL_FUNDO, COL_ATIVO, COL_VALOR>>
TodasColunas == {COL_FUNDO, COL_ATIVO, COL_VALOR}

None == [none |-> TRUE]

(* outside the batch handler its variables stay as they are here *)
SemLote ==
    /\ session_state = None /\ invalidos = 0 /\ novos_para_inserir = <<>>
    /\ ui = None /\ chamadas = <<>> /\ yaml_path = ""

(* the clock held at one date: no row of these pools is a coupon bond, the  *)
(* only rows whose term reads the clock                                    *)
RelogioFixo == today = <<2026, 1, 10>>

Range(s) == {s[k] : k \in DOMAIN s}

SeqsAte(S, n) == UNION {[1..m -> S] : m \in 0..n}

Injetiva(s) == \A j, k \in DOMAIN s : j # k => s[j] # s[k]

(* Rows of the portfolio table used by the position simulator: two rows of *)
(* ALPHA share instrument X, one row of BETA holds X too.                  *)
LinhasBase ==
    { [fundo |-> "ALPHA", ativo |-> "X", valor |-> 10],
      [fundo |-> "ALPHA", ativo |-> "X", valor |-> 3],
      [fundo |-> "ALPHA", ativo |-> "Y", valor |-> 7],
      [fundo |-> "BETA",  ativo |-> "X", valor |-> 5] }

SelecoesDe(S) == {s \in SeqsAte(S, Cardinality(S)) : Injetiva(s)}

CarteirasCompletas == {[cols |-> TodasColunas, rows |-> s] : s \in SelecoesDe(LinhasBase)}

CarteirasSemColuna ==
    {[cols |-> TodasColunas \ {c}, rows |-> <<r>>] : c \in TodasColunas, r \in LinhasBase}

Carteiras == CarteirasCompletas \cup CarteirasSemColuna \cup {None}

Ordens == [fundo : Funds, ativo : Ativos, quantidade : Qtds, preco : Precos, tipo : Tipos]

--------------------------------------------------------------------------
(* core/engine.py: aplicar_ordens_no_df                                    *)

(* df.empty: an axis of length 0 *)
Vazio(d) == d = None \/ d.cols = {} \/ Len(d.rows) = 0

(* lines 7-11: the checks made before the copy; "" when they pass *)
ChecaEntrada(d) ==
    IF Vazio(d) THEN "DataFrame da carteira esta vazio"
    ELSE IF \E k \in 1..3 : ColunasObrigatorias[k] \notin d.cols
         THEN "Coluna obrigatoria ausente"
         ELSE ""

(* line 13: dfp = df.copy() binds dfp to a fresh object *)
DfSemCopia == "arg"
DfCopy == "copy"

(* lines 22-24 *)
delta_sem_sinal(o) == o.quantidade * o.preco
delta(o) == IF o.tipo = "venda" THEN -(o.quantidade * o.preco) ELSE o.quantidade * o.preco

(* line 19 *)
mask(d, f, o) == [k \in 1..Len(d.rows) |-> d.rows[k].fundo = f /\ d.rows[k].ativo = o.ativo]

(* lines 17-21: the two checks made on each order; "" when they pass *)
ChecaSoFundo(d, f, o) ==
    IF o.fundo # f THEN "Ordem com fundo diferente do selecionado" ELSE ""
ChecaOrdem(d, f, o) ==
    IF o.fundo # f THEN "Ordem com fundo diferente do selecionado"
    ELSE IF ~(\E k \in 1..Len(d.rows) : mask(d, f, o)[k])
         THEN "Ativo nao encontrado no fundo"
         ELSE ""

(* line 25: every masked row receives the whole delta *)
SomaDelta(d, f, o) ==
    LET msk == mask(d, f, o) IN
    [d EXCEPT !.rows = [k \in 1..Len(d.rows) |->
        IF msk[k] THEN [d.rows[k] EXCEPT !.valor = @ + delta(o)] ELSE d.rows[k]]]

(* lines 16-27 as a function: the frame returned, or the error raised *)
RECURSIVE AplicaDe(_, _, _, _)
AplicaDe(d, f, os, k) ==
    IF k > Len(os) THEN [erro |-> "", df |-> d]
    ELSE IF ChecaOrdem(d, f, os[k]) # "" THEN [erro |-> ChecaOrdem(d, f, os[k]), df |-> None]
         ELSE AplicaDe(SomaDelta(d, f, os[k]), f, os, k + 1)

aplicar_ordens_no_df(d, f, os) ==
    IF ChecaEntrada(d) # "" THEN [erro |-> ChecaEntrada(d), df |-> None]
    ELSE AplicaDe(d, f, os, 1)

(* ---- the call, one step per statement group ---- *)

InitOrdens ==
    /\ pc = "entrada"
    /\ \E d \in Carteiras : heap = [arg |-> d, copy |-> None] /\ df0 = d
    /\ dfp = "none"
    /\ fundo \in Funds
    /\ ordens \in SeqsAte(Ordens, MaxOrdens)
    /\ i = 1
    /\ ret = None
    /\ erro = ""
    /\ ordem = None /\ config = None /\ resultados = <<>> /\ avaliador = ""
    /\ SemLote
    /\ RelogioFixo

(* lines 7-14 *)
Entrada ==
    /\ pc = "entrada"
    /\ IF ChecaEntrada(heap.arg) # ""
       THEN /\ erro' = ChecaEntrada(heap.arg)
            /\ pc' = "raised"
            /\ UNCHANGED <<heap, dfp>>
       ELSE /\ heap' = [heap EXCEPT !.copy = heap.arg]
            /\ dfp' = DfCopy
            /\ pc' = "loop"
            /\ UNCHANGED erro
    /\ UNCHANGED <<df0, fundo, ordens, i, ret>>
    /\ UNCHANGED foraOrdens

(* lines 16-25: one iteration of the loop *)
Itera ==
    /\ pc = "loop"
    /\ i <= Len(ordens)
    /\ IF ChecaOrdem(heap[dfp], fundo, ordens[i]) # ""
       THEN /\ erro' = ChecaOrdem(heap[dfp], fundo, ordens[i])
            /\ pc' = "raised"
            /\ UNCHANGED <<heap, i>>
       ELSE /\ heap' = [heap EXCEPT ![dfp] = SomaDelta(heap[dfp], fundo, ordens[i])]
            /\ i' = i + 1
            /\ UNCHANGED <<erro, pc>>
    /\ UNCHANGED <<dfp, df0, fundo, ordens, ret>>
    /\ UNCHANGED foraOrdens

(* line 27 *)
Retorna ==
    /\ pc = "loop"
    /\ i > Len(ordens)
    /\ ret' = heap[dfp]
    /\ pc' = "returned"
    /\ UNCHANGED <<heap, dfp, df0, fundo, ordens, i, erro>>
    /\ UNCHANGED foraOrdens

NextOrdens == Entrada \/ Itera \/ Retorna

SpecOrdens == InitOrdens /\ [][NextOrdens]_vars

--------------------------------------------------------------------------
(* Properties of aplicar_ordens_no_df (checked under SpecOrdens)           *)

(* signed value of the orders os[k..] whose ativo is a: +quantidade*preco  *)
(* for a compra, -quantidade*preco for a venda                             *)
RECURSIVE SomaAssinada(_, _, _)
SomaAssinada(os, a, k) ==
    IF k > Len(os) THEN 0
    ELSE (IF os[k].ativo # a THEN 0
          ELSE IF os[k].tipo = "compra" THEN os[k].quantidade * os[k].preco
               ELSE 0 - os[k].quantidade * os[k].preco)
         + SomaAssinada(os, a, k + 1)

(* C1: when the call returns, every row of the target fund holds its       *)
(* original value plus the signed value of all orders on its ativo (each   *)
(* of several rows of one instrument receives the whole amount), and rows  *)
(* of other funds are returned as they were; no row is added or dropped.   *)
C1_ValorPorLinha ==
    pc = "returned" =>
        /\ ret.cols = df0.cols
        /\ Len(ret.rows) = Len(df0.rows)
        /\ \A k \in 1..Len(df0.rows) :
              ret.rows[k] =
                 [df0.rows[k] EXCEPT !.valor =
                     @ + (IF df0.rows[k].fundo = fundo
                          THEN SomaAssinada(ordens, df0.rows[k].ativo, 1) ELSE 0)]

(* C1 witness: a venda followed by the compra of the same instrument,      *)
(* quantity and price, on an instrument held on two rows of the fund,      *)
(* returns the original values.                                            *)
C1_Witness ==
    /\ pc = "returned"
    /\ Len(ordens) = 2
    /\ ordens[1].tipo = "venda"
    /\ ordens[2] = [ordens[1] EXCEPT !.tipo = "compra"]
    /\ \E j, k \in 1..Len(df0.rows) :
          /\ j # k
          /\ df0.rows[j].fundo = fundo /\ df0.rows[k].fundo = fundo
          /\ df0.rows[j].ativo = ordens[1].ativo /\ df0.rows[k].ativo = ordens[1].ativo
    /\ \E k \in 1..Len(df0.rows) : df0.rows[k].fundo # fundo
    /\ ret.rows = df0.rows

(* C2: the DataFrame passed as df holds, in every state of the call, the   *)
(* rows and values it held when the call started.                          *)
C2_EntradaIntacta == heap.arg = df0

(* C2 witness: the call raised on its second order after the first one     *)
(* changed the working copy.                                               *)
C2_Witness ==
    /\ pc = "raised"
    /\ i = 2
    /\ heap.copy # df0
    /\ heap.arg = df0

(* the inputs the claim C3 names *)
OrdemInvalida(d, f, o) ==
    \/ o.fundo # f
    \/ ~(\E k \in 1..Len(d.rows) : d.rows[k].fundo = f /\ d.rows[k].ativo = o.ativo)

EntradaInvalida ==
    \/ df0 = None
    \/ Len(df0.rows) = 0
    \/ \E c \in TodasColunas : c \notin df0.cols
    \/ \E k \in 1..Len(ordens) : OrdemInvalida(df0, fundo, ordens[k])

(* C3: with an empty snapshot, a missing required column, an order of      *)
(* another fund or an order on an instrument the fund has no row for, at   *)
(* any position, the call never reaches its return statement and returns   *)
(* nothing; once it has ended it has raised an error.                      *)
C3_FalhaSemRetorno ==
    EntradaInvalida =>
        /\ pc # "returned"
        /\ ret = None
        /\ ~(pc = "loop" /\ i > Len(ordens))
        /\ (pc = "raised" => erro # "")

(* C3 witness: the offending order is the second one, the first was valid  *)
(* and already applied to the working copy.                                *)
C3_Witness ==
    /\ pc = "raised"
    /\ i = 2
    /\ ~OrdemInvalida(df0, fundo, ordens[1])
    /\ ordens[2].fundo = fundo
    /\ OrdemInvalida(df0, fundo, ordens[2])
    /\ heap.copy # df0
    /\ ret = None

--------------------------------------------------------------------------
(* Numbers of the rule evaluators: exact fractions <<n, d>>, d > 0, in     *)
(* lowest terms (percentages of the PL, limits, average terms in days).    *)

Abs(x) == IF x < 0 THEN 0 - x ELSE x

RECURSIVE GCD(_, _)
GCD(a, b) == IF b = 0 THEN a ELSE GCD(b, a % b)

(* n/d divided through by g, the denominator made positive *)
Reduz(n, d, g) == <<((IF d < 0 THEN 0 - 1 ELSE 1) * n) \div g, Abs(d) \div g>>

Frac(n, d) == Reduz(n, d, GCD(Abs(n), Abs(d)))

FInt(n) == <<n, 1>>
Zero == <<0, 1>>
FGe(a, b) == a[1] * b[2] >= b[1] * a[2]
FGt(a, b) == a[1] * b[2] > b[1] * a[2]

--------------------------------------------------------------------------
(* Portfolio table of the rule evaluators.  A cell that is null (NaN) is   *)
(* the empty sequence, a cell with value v is <<v>>.                       *)

COL_TIPO_FUNDO == "tipo do fundo"
COL_TIPO == "tipo"
COL_CAT == "categoria"
COL_CAT2 == "categoria 2"
COL_CATC == "categoria comite"
COL_TPA == "tipo de ativo"
COL_CNPJ == "cnpj"
COL_PRAZO == "prazo_dias"

(* line 8 *)
_CAT_COLS == <<COL_CAT, COL_CAT2, COL_CATC>>
(* line 9 *)
_TARGET_CNPJ == "28.819.553/0001-90"
(* lines 12-22; the two spellings with an accent are left out: a name run  *)
(* through _strip_accents never equals them                                *)
_CNPJ_EXCLUDE_FUNDS ==
    { "rio guaimbe fim", "guaimbe fim", "perola negra fim", "ambar branco fim",
      "trindade fim", "tsadik fim", "quartzo azul fim", "quartzo fim",
      "tavola fim", "tavola", "brutus fim", "brutus" }

(* the cell of a row in one of the nullable text columns *)
Cell(r, c) ==
    CASE c = COL_TIPO_FUNDO -> r.tipo_fundo
      [] c = COL_TIPO -> r.tipo
      [] c = COL_CAT -> r.cat
      [] c = COL_CAT2 -> r.cat2
      [] c = COL_CATC -> r.catc
      [] c = COL_TPA -> r.tpa
      [] c = COL_CNPJ -> r.cnpj

(* str.strip() and str.lower()/upper() on the strings of the pools: the    *)
(* strings below are the ones that carry blanks or capitals                *)
Strip(x) ==
    CASE x = " Futuros " -> "Futuros"
      [] x = " fia " -> "fia"
      [] x = " X " -> "X"
      [] x = " x " -> "x"
      [] x = " Renda Variavel" -> "Renda Variavel"
      [] x = " 28.819.553/0001-90 " -> "28.819.553/0001-90"
      [] x = " Venda" -> "Venda"
      [] x = " 2 " -> "2"
      [] OTHER -> x

Lower(x) ==
    CASE x = "Futuros" -> "futuros"
      [] x = "FUTUROS" -> "futuros"
      [] x = "VENDA" -> "venda"
      [] x = "Venda" -> "venda"
      [] x = " Venda" -> " venda"
      [] x = "N" -> "n"
      [] x = "Outros" -> "outros"
      [] x = "Caixa" -> "caixa"
      [] x = "Renda Variavel" -> "renda variavel"
      [] x = "RENDA VARIAVEL" -> "renda variavel"
      [] x = "Renda Fixa" -> "renda fixa"
      [] x = "Cotas de Fundos" -> "cotas de fundos"
      [] x = "Debenture" -> "debenture"
      [] x = "ALPHA" -> "alpha"
      [] x = "BETA" -> "beta"
      [] x = "X" -> "x"
      [] x = "Y" -> "y"
      [] x = "Z" -> "z"
      [] x = "F" -> "f"
      [] x = "W" -> "w"
      [] x = "FIA" -> "fia"
      [] x = "ETF" -> "etf"
      [] x = "FIM" -> "fim"
      [] x = "FII" -> "fii"
      [] x = "Brutus" -> "brutus"
      [] x = "Tavola" -> "tavola"
      [] x = "Távola" -> "távola"
      [] x = "CONTAS CORRENTES" -> "contas correntes"
      [] x = "ACOES" -> "acoes"
      [] OTHER -> x

Upper(x) ==
    CASE x = "fia" -> "FIA"
      [] x = "etf" -> "ETF"
      [] x = "fim" -> "FIM"
      [] x = "Fia" -> "FIA"
      [] OTHER -> x

(* line 27-28 *)
_norm(x) == Lower(Strip(x))

(* line 32: NFKD decomposition with the combining marks dropped *)
SemAcento(x) ==
    CASE x = "Távola" -> "Tavola"
      [] OTHER -> x

(* lines 30-34 *)
_strip_accents(x) == Strip(Lower(SemAcento(x)))

(* lines 36-37 *)
_is_in_set_norm(name, norm_set) == _strip_accents(name) \in norm_set

(* rows of d kept where keep[k] holds *)
RECURSIVE FiltraDe(_, _, _)
FiltraDe(rows, keep, k) ==
    IF k > Len(rows) THEN <<>>
    ELSE (IF keep[k] THEN <<rows[k]>> ELSE <<>>) \o FiltraDe(rows, keep, k + 1)

Filtra(d, keep) == [d EXCEPT !.rows = FiltraDe(d.rows, keep, 1)]

DoFundo(d, f) == Filtra(d, [k \in 1..Len(d.rows) |-> d.rows[k].fundo = f])

RECURSIVE SomaValorDe(_, _)
SomaValorDe(rows, k) == IF k > Len(rows) THEN 0 ELSE rows[k].valor + SomaValorDe(rows, k + 1)

SomaValor(d) == SomaValorDe(d.rows, 1)

(* lines 39-45: first non-null fund type of the fund's rows *)
NaoNulos(d, f, c) ==
    FiltraDe([k \in 1..Len(d.rows) |-> Cell(d.rows[k], c)],
             [k \in 1..Len(d.rows) |-> d.rows[k].fundo = f /\ Cell(d.rows[k], c) # <<>>], 1)

_get_fundo_tipo(d, f) ==
    LET tipos1 == NaoNulos(d, f, COL_TIPO_FUNDO)
        tipos2 == NaoNulos(d, f, COL_TIPO)
    IN  IF COL_TIPO_FUNDO \in d.cols /\ tipos1 # <<>> THEN Upper(Strip(tipos1[1][1]))
        ELSE IF COL_TIPO \in d.cols /\ tipos2 # <<>> THEN Upper(Strip(tipos2[1][1]))
             ELSE "DESCONHECIDO"

(* lines 39-45 raise KeyError when a type column exists and the fund       *)
(* column does not                                                         *)
_get_fundo_tipo_raises(d) ==
    (COL_TIPO_FUNDO \in d.cols \/ COL_TIPO \in d.cols) /\ COL_FUNDO \notin d.cols

(* lines 47-48 *)
_valor_ordem(o) == o.quantidade * o.preco

(* fillna(""): a null text cell reads as "" *)
Texto(cell) == IF cell = <<>> THEN "" ELSE cell[1]

(* the frame kept whole *)
SemFiltro(d) == d

(* lines 50-55 *)
_filtro_futuros(d) ==
    IF COL_CAT2 \notin d.cols THEN d
    ELSE Filtra(d, [k \in 1..Len(d.rows) |-> _norm(Texto(d.rows[k].cat2)) # "futuros"])

(* lines 57-63 *)
_pl_total(d, o) ==
    IF COL_VALOR \notin d.cols \/ COL_FUNDO \notin d.cols THEN 0
    ELSE SomaValor(_filtro_futuros(DoFundo(d, o.fundo)))

(* lines 65-66 *)
_pct(x, y) == IF y # 0 THEN Frac(x, y) ELSE Zero

FAdd(a, b) == Frac(a[1] * b[2] + b[1] * a[2], a[2] * b[2])
FMul(a, b) == Frac(a[1] * b[1], a[2] * b[2])
FDiv(a, b) == Frac(a[1] * b[2], a[2] * b[1])

--------------------------------------------------------------------------
(* Values of the configuration document (what yaml.safe_load yields)       *)

YNull == [null |-> TRUE]
YStr(x) == [str |-> x]
YNum(f) == [num |-> f]
YBool(b) == [bool |-> b]
YMap(m) == [map |-> m]
YList(l) == [list |-> l]

IsNull(y) == DOMAIN y = {"null"}
IsStr(y) == DOMAIN y = {"str"}
IsNum(y) == DOMAIN y = {"num"}
IsBool(y) == DOMAIN y = {"bool"}
IsMap(y) == DOMAIN y = {"map"}
IsList(y) == DOMAIN y = {"list"}

EmptyMap == YMap(<<>>)

(* dict.get(key, default) *)
Get(y, key, default) == IF key \in DOMAIN y.map THEN y.map[key] ELSE default

(* float(x): defined on numbers and booleans; the strings of the pools are *)
(* not numerals                                                            *)
FloatOk(y) == IsNum(y) \/ IsBool(y)
Float(y) == IF IsNum(y) THEN y.num ELSE IF y.bool THEN FInt(1) ELSE Zero

(* bool(x) *)
Truthy(y) ==
    CASE IsNull(y) -> FALSE
      [] IsBool(y) -> y.bool
      [] IsNum(y) -> y.num[1] # 0
      [] IsStr(y) -> y.str # ""
      [] IsList(y) -> Len(y.list) > 0
      [] IsMap(y) -> DOMAIN y.map # {}

(* the lookup with the two keys tried in the other order *)
_cfg_tipo_primeiro(limites_regra, f, tipo) ==
    IF IsMap(limites_regra) /\ tipo \in DOMAIN limites_regra.map THEN limites_regra.map[tipo]
    ELSE IF IsMap(limites_regra) /\ f \in DOMAIN limites_regra.map THEN limites_regra.map[f]
         ELSE YNull

(* lines 68-73: the fund's own entry first, then the fund type's; None     *)
(* when the mapping has neither key or is no mapping                       *)
_cfg_for_scope(limites_regra, f, tipo) ==
    IF IsMap(limites_regra) /\ f \in DOMAIN limites_regra.map THEN limites_regra.map[f]
    ELSE IF IsMap(limites_regra) /\ tipo \in DOMAIN limites_regra.map THEN limites_regra.map[tipo]
         ELSE YNull

--------------------------------------------------------------------------
(* core/rules.py: _mask_por_alvo (lines 219-273)                           *)

(* str.startswith on the identifiers of the pools *)
StartsWith(x, p) == p = "" \/ x = p

TemLista(alvo, key) == IsMap(alvo) /\ key \in DOMAIN alvo.map /\ IsList(alvo.map[key])

NormSet(l) == {_norm(l[k]) : k \in DOMAIN l}

SeqOr(a, b) == [k \in DOMAIN a |-> a[k] \/ b[k]]
SeqAnd(a, b) == [k \in DOMAIN a |-> a[k] /\ b[k]]
Todos(d, b) == [k \in 1..Len(d.rows) |-> b]

(* an empty list under "any" taken to select every row *)
m_any_vazio_tudo(d, alvo) ==
    IF TemLista(alvo, "any")
    THEN [k \in 1..Len(d.rows) |->
            \/ Len(alvo.map["any"].list) = 0
            \/ \E c \in {_CAT_COLS[j] : j \in 1..3} :
                c \in d.cols /\ _norm(Texto(Cell(d.rows[k], c))) \in NormSet(alvo.map["any"].list)]
    ELSE Todos(d, FALSE)

(* lines 249-257 *)
m_any(d, alvo) ==
    IF TemLista(alvo, "any")
    THEN [k \in 1..Len(d.rows) |->
            \E c \in {_CAT_COLS[j] : j \in 1..3} :
                c \in d.cols /\ _norm(Texto(Cell(d.rows[k], c))) \in NormSet(alvo.map["any"].list)]
    ELSE Todos(d, FALSE)

(* lines 259-265 *)
m_cols(d, alvo) ==
    [k \in 1..Len(d.rows) |->
        \E c \in {COL_CAT, COL_CAT2, COL_CATC, COL_TPA} :
            /\ TemLista(alvo, c)
            /\ c \in d.cols
            /\ _norm(Texto(Cell(d.rows[k], c))) \in NormSet(alvo.map[c].list)]

(* lines 75-77: the texts of the classification columns the row has; a   *)
(* null cell reads "nan"                                                   *)
_row_text(cols, r) ==
    [j \in 1..3 |-> IF _CAT_COLS[j] \notin cols THEN <<>>
                    ELSE IF Cell(r, _CAT_COLS[j]) = <<>> THEN <<"nan">>
                    ELSE Cell(r, _CAT_COLS[j])]

(* re.search with IGNORECASE for the patterns of the pools, which are      *)
(* plain words: the word occurs in one of the joined texts                 *)
Contem(x, palavra) ==
    CASE palavra = "renda" -> Lower(x) \in {"renda variavel", "renda fixa", " renda variavel"}
      [] palavra = "fut" -> Lower(x) \in {"futuros", " futuros "}
      [] OTHER -> Lower(x) = palavra

RxSearch(rx, parts) == \E j \in 1..3 : parts[j] # <<>> /\ Contem(parts[j][1], Lower(rx))

(* lines 267-271 *)
m_rx(d, alvo) ==
    IF IsMap(alvo) /\ "regex" \in DOMAIN alvo.map /\ IsStr(alvo.map["regex"])
       /\ Strip(alvo.map["regex"].str) # ""
    THEN [k \in 1..Len(d.rows) |-> RxSearch(alvo.map["regex"].str, _row_text(d.cols, d.rows[k]))]
    ELSE Todos(d, FALSE)

RECURSIVE _mask_por_alvo(_, _)
RECURSIVE OrGrupos(_, _, _)
RECURSIVE AndTodos(_, _, _)

(* the lookup of groups that stops at the first sub-spec *)
OrSoPrimeiro(d, subs, k) ==
    IF k > Len(subs) THEN Todos(d, FALSE) ELSE _mask_por_alvo(d, subs[k])

(* lines 226-229 *)
OrGrupos(d, subs, k) ==
    IF k > Len(subs) THEN Todos(d, FALSE)
    ELSE SeqOr(_mask_por_alvo(d, subs[k]), OrGrupos(d, subs, k + 1))

(* lines 233-236 *)
AndTodos(d, subs, k) ==
    IF k > Len(subs) THEN Todos(d, TRUE)
    ELSE SeqAnd(_mask_por_alvo(d, subs[k]), AndTodos(d, subs, k + 1))

_mask_por_alvo(d, alvo) ==
    IF Len(d.rows) = 0 \/ d.cols = {} THEN Todos(d, FALSE)
    ELSE IF TemLista(alvo, "groups") THEN OrGrupos(d, alvo.map["groups"].list, 1)
    ELSE IF TemLista(alvo, "all") THEN AndTodos(d, alvo.map["all"].list, 1)
    ELSE IF IsMap(alvo) /\ "ativo_equals" \in DOMAIN alvo.map /\ COL_ATIVO \in d.cols
         THEN [k \in 1..Len(d.rows) |-> _norm(d.rows[k].ativo) \in NormSet(alvo.map["ativo_equals"].list)]
    ELSE IF IsMap(alvo) /\ "ativo_prefix" \in DOMAIN alvo.map /\ COL_ATIVO \in d.cols
         THEN [k \in 1..Len(d.rows) |->
                 \E j \in DOMAIN alvo.map["ativo_prefix"].list :
                     StartsWith(d.rows[k].ativo, alvo.map["ativo_prefix"].list[j])]
    ELSE SeqOr(SeqOr(m_any(d, alvo), m_cols(d, alvo)), m_rx(d, alvo))

--------------------------------------------------------------------------
(* core/rules.py: _calc_prazo_row (lines 113-168)                          *)

(* str(row.get(col, "")).strip(): "" without the column, "nan" for a null  *)
StrCell(cols, r, c) ==
    IF c \notin cols THEN "" ELSE IF Cell(r, c) = <<>> THEN "nan" ELSE Strip(Cell(r, c)[1])

(* A date is <<year, month, day>>; no date (None, NaT) is <<>>.             *)
Bissexto(y) == (y % 4 = 0 /\ y % 100 # 0) \/ y % 400 = 0

DiasNoMes(y, m) ==
    CASE m \in {4, 6, 9, 11} -> 30
      [] m = 2 -> (IF Bissexto(y) THEN 29 ELSE 28)
      [] OTHER -> 31

RECURSIVE DiasAntesDoMes(_, _)
DiasAntesDoMes(y, m) == IF m = 1 THEN 0 ELSE DiasAntesDoMes(y, m - 1) + DiasNoMes(y, m - 1)

(* the day number of a date, counted from 2000-01-01 *)
Ordinal(dt) ==
    365 * (dt[1] - 2000)
    + ((dt[1] - 1) \div 4 - (dt[1] - 1) \div 100 + (dt[1] - 1) \div 400) - (499 - 19 + 4)
    + DiasAntesDoMes(dt[1], dt[2]) + dt[3]

(* the day d cut to the length of month m of year y *)
DiaNoMes(y, m, d) == <<y, m, IF d > DiasNoMes(y, m) THEN DiasNoMes(y, m) ELSE d>>

(* dateutil's relativedelta(months=n) added to a date, n in -11..11: the   *)
(* month moves, the day is cut to the length of the month reached          *)
MaisMeses(dt, n) ==
    IF dt[2] + n < 1 THEN DiaNoMes(dt[1] - 1, dt[2] + n + 12, dt[3])
    ELSE IF dt[2] + n > 12 THEN DiaNoMes(dt[1] + 1, dt[2] + n - 12, dt[3])
    ELSE DiaNoMes(dt[1], dt[2] + n, dt[3])

(* lines 79-87: the as-of date of a row; a null cell or a missing column   *)
(* gives no date                                                           *)
_to_date(cols, r) ==
    IF "database" \notin cols \/ r.database = <<>> THEN <<>> ELSE r.database[1]

(* lines 89-98: the last ten characters read as dd/mm/yyyy, on the         *)
(* identifiers of the pools                                                *)
_parse_ddmmyyyy_tail(s) ==
    CASE s = "LFT - 01/09/2027" -> <<2027, 9, 1>>
      [] s = "NTN-B - 15/08/2026" -> <<2026, 8, 15>>
      [] s = "NTN-B - 31/08/2026" -> <<2026, 8, 31>>
      [] s = "NTNB - 15/08/2026" -> <<2026, 8, 15>>
      [] OTHER -> <<>>

(* lines 100-106: s[start:start+length] read as yyyymmdd *)
_parse_yyyymmdd_mid(s, start, length) ==
    CASE s = "LFT20290901 - 210100" /\ start = 3 /\ length = 8 -> <<2029, 9, 1>>
      [] s = "NTNB20260815 - 1" /\ start = 4 /\ length = 8 -> <<2026, 8, 15>>
      [] OTHER -> <<>>

(* str.startswith / str.endswith on the identifiers of the pools *)
ComecaCom(s, p) ==
    CASE p = "LFT - " -> s \in {"LFT - 01/09/2027", "LFT - sem data"}
      [] p = "LFT" -> s \in {"LFT - 01/09/2027", "LFT - sem data", "LFT20290901 - 210100", "LFTX",
                            "LFT-01/09/2027"}
      [] p = "NTN-B" -> s \in {"NTN-B - 15/08/2026", "NTN-B - 31/08/2026", "NTN-B Over"}
      [] p = "NTNB" -> s \in {"NTNB20260815 - 1", "NTNB - 15/08/2026"}
      [] OTHER -> FALSE

TerminaCom(s, p) == p = "Over" /\ s = "NTN-B Over"

(* the difference counting both end days *)
_days_diff_inclusivo(d_end, d_ref) ==
    IF d_end = <<>> \/ d_ref = <<>> THEN Zero ELSE FInt(Ordinal(d_end) - Ordinal(d_ref) + 1)

(* lines 108-111 *)
_days_diff(d_end, d_ref) ==
    IF d_end = <<>> \/ d_ref = <<>> THEN Zero ELSE FInt(Ordinal(d_end) - Ordinal(d_ref))

(* lines 186-190: the date reached from the maturity in steps of six       *)
(* months back, until it is not after today, and the number of steps       *)
RECURSIVE Recua(_, _, _)
Recua(d, hoje, contador) ==
    IF Ordinal(d) - Ordinal(hoje) > 0 THEN Recua(MaisMeses(d, 0 - 6), hoje, contador + 1)
    ELSE <<d, contador>>

(* lines 197-206: the loop over the coupons k..contador-1; d is the date   *)
(* and cupom the value of the coupon before, somaprod and somacupom the    *)
(* sums so far; the value is <<somaprod, somacupom>> after the loop        *)
RECURSIVE Cupons(_, _, _, _, _, _, _, _)
RECURSIVE Acumula(_, _, _, _, _, _, _, _)
Cupons(k, contador, d, cupom, somaprod, somacupom, valorntnb, ref_date) ==
    IF k >= contador THEN <<somaprod, somacupom>>
    ELSE Acumula(k, contador, MaisMeses(d, 6),
                 IF k = 0 THEN FMul(FInt(valorntnb), <<3, 100>>) ELSE FMul(cupom, <<97, 100>>),
                 somaprod, somacupom, valorntnb, ref_date)

(* lines 203-206: one coupon added to the sums *)
Acumula(k, contador, d, cupom, somaprod, somacupom, valorntnb, ref_date) ==
    Cupons(k + 1, contador, d, cupom,
           FAdd(somaprod, FMul(cupom, _days_diff(d, ref_date))), FAdd(somacupom, cupom),
           valorntnb, ref_date)

(* line 209: max(valorntnb - somacupom, 0.0) *)
Principal(resto) == IF FGt(resto, Zero) THEN resto ELSE Zero

(* the bare days to maturity, the coupons left out *)
PrazoSoPrincipal(valorntnb, data_maturity, ref_date, somas) ==
    _days_diff(data_maturity, ref_date)

(* lines 208-216, somas the sums of the loop *)
PrazoComSomas(valorntnb, data_maturity, ref_date, somas) ==
    FDiv(FAdd(somas[1],
              FMul(Principal(FAdd(FInt(valorntnb), FMul(FInt(0 - 1), somas[2]))),
                   _days_diff(data_maturity, ref_date))),
         FInt(valorntnb))

(* lines 192-216, ancora the date and the count the loop of line 188 ends with *)
PrazoComAncora(valorntnb, data_maturity, ref_date, ancora) ==
    PrazoComSomas(valorntnb, data_maturity, ref_date,
                  Cupons(0, ancora[2], ancora[1], Zero, Zero, Zero, valorntnb, ref_date))

(* lines 170-217; date.today() is the variable today *)
_prazo_ntnb_com_cupons(valorntnb, data_maturity, ref_date) ==
    IF data_maturity = <<>> \/ ref_date = <<>> THEN Zero
    ELSE IF valorntnb <= 0 THEN Zero
    ELSE PrazoComAncora(valorntnb, data_maturity, ref_date, Recua(data_maturity, today, 0))

(* lines 137-161: rules 4 to 8, the bond families: <<family, maturity>> of  *)
(* the rule that returns, <<>> when none does.  Rule 5 returns only with a *)
(* maturity read (line 145); the others return whatever was read.          *)
Titulo(fundo_linha, ativo) ==
    IF ComecaCom(ativo, "LFT - ") THEN <<"LFT", _parse_ddmmyyyy_tail(ativo)>>
    ELSE IF ComecaCom(ativo, "LFT") /\ _parse_yyyymmdd_mid(ativo, 3, 8) # <<>>
    THEN <<"LFT", _parse_yyyymmdd_mid(ativo, 3, 8)>>
    ELSE IF ComecaCom(ativo, "NTN-B") /\ ~TerminaCom(ativo, "Over")
    THEN <<"NTNB", _parse_ddmmyyyy_tail(ativo)>>
    ELSE IF ComecaCom(ativo, "NTNB") /\ fundo_linha # "PHIP11"
    THEN <<"NTNB", _parse_yyyymmdd_mid(ativo, 4, 8)>>
    ELSE IF ComecaCom(ativo, "NTNB") /\ fundo_linha = "PHIP11"
    THEN <<"NTNB", _parse_ddmmyyyy_tail(ativo)>>
    ELSE <<>>

(* lines 140, 146, 151, 156, 161: the value the rule returns *)
PrazoDeTitulo(cols, r, titulo) ==
    IF titulo[1] = "LFT" THEN _days_diff(titulo[2], _to_date(cols, r))
    ELSE _prazo_ntnb_com_cupons(IF COL_VALOR \in cols THEN r.valor ELSE 0,
                                titulo[2], _to_date(cols, r))

(* the bond rules tried before the rules on the classification *)
PrazoTituloPrimeiro(cols, r, cat, cat2, tpa, ativo, titulo) ==
    IF titulo # <<>> THEN PrazoDeTitulo(cols, r, titulo)
    ELSE IF cat2 = "Cotas de Fundos" /\ cat \in {"Multimercado", "Renda Fixa", "FIDC"} THEN FInt(366)
    ELSE IF cat = "Caixa" /\ tpa # "CONTAS CORRENTES" THEN FInt(1)
    ELSE IF tpa = "CONTAS CORRENTES" /\ ativo = "C/C" THEN FInt(1)
    ELSE IF COL_PRAZO \in cols /\ r.prazo_dias # <<>> /\ r.prazo_dias[1] > 0
         THEN FInt(r.prazo_dias[1])
         ELSE Zero

(* lines 126-168 once the fields are read *)
PrazoDaLinha(cols, r, cat, cat2, tpa, ativo, titulo) ==
    IF cat2 = "Cotas de Fundos" /\ cat \in {"Multimercado", "Renda Fixa", "FIDC"} THEN FInt(366)
    ELSE IF cat = "Caixa" /\ tpa # "CONTAS CORRENTES" THEN FInt(1)
    ELSE IF tpa = "CONTAS CORRENTES" /\ ativo = "C/C" THEN FInt(1)
    ELSE IF titulo # <<>> THEN PrazoDeTitulo(cols, r, titulo)
    ELSE IF COL_PRAZO \in cols /\ r.prazo_dias # <<>> /\ r.prazo_dias[1] > 0
         THEN FInt(r.prazo_dias[1])
         ELSE Zero

(* lines 113-168 *)
_calc_prazo_row(cols, r) ==
    PrazoDaLinha(cols, r, StrCell(cols, r, COL_CAT), StrCell(cols, r, COL_CAT2),
                 StrCell(cols, r, COL_TPA), IF COL_ATIVO \in cols THEN Strip(r.ativo) ELSE "",
                 Titulo(IF COL_FUNDO \in cols THEN Strip(r.fundo) ELSE "",
                        IF COL_ATIVO \in cols THEN Strip(r.ativo) ELSE ""))

--------------------------------------------------------------------------
(* core/models.py: RegraResultado; core/rules.py: the three evaluators.    *)
(* An evaluator yields [exc, res]: exc is "" and res the RegraResultado it *)
(* returned, or exc is the error it raised.                                *)

RegraResultado(regra, passou, valor_atual, valor_proposto, limite, mensagem) ==
    [regra |-> regra, passou |-> passou, valor_atual |-> valor_atual,
     valor_proposto |-> valor_proposto, limite |-> limite, mensagem |-> mensagem]

Ok(r) == [exc |-> "", res |-> r]
Raise(e) == [exc |-> e, res |-> None]

MSG_ISENTO == <<"isento de observancia">>
MSG_SEM_LINHAS == <<"Sem linhas/coluna 'valor' para o fundo">>
MSG_SEM_DADOS == <<"Sem dados suficientes para calculo">>
MSG_PCT == <<"% do PL (min)">>
MSG_DIAS == <<"dias (min)">>

(* lines 279 / 324: entry in (None, "~", "NA", "N/A") *)
Isento(entry) == IsNull(entry) \/ (IsStr(entry) /\ entry.str \in {"~", "NA", "N/A"})

(* lines 282-283 / 327-328: a bare number (bool included) becomes          *)
(* {"min": float(entry), "alvo": {"any": []}}                              *)
Coage(entry) ==
    IF IsNum(entry) \/ IsBool(entry)
    THEN YMap([min |-> YNum(Float(entry)), alvo |-> YMap([any |-> YList(<<>>)])])
    ELSE entry

(* the order counted whatever its instrument *)
ContaOrdemSempre(df_f, o, alvo) == TRUE

(* lines 299-302 / 346-349: the order counts when a row of its instrument   *)
(* is selected by the target                                               *)
ContaOrdemNoAlvo(df_f, o, alvo) ==
    LET ativo_row == Filtra(df_f, [k \in 1..Len(df_f.rows) |-> df_f.rows[k].ativo = o.ativo])
        msk_ordem == _mask_por_alvo(ativo_row, alvo)
    IN  Len(ativo_row.rows) > 0 /\ \E k \in 1..Len(ativo_row.rows) : msk_ordem[k]

(* lines 295-319 / 342-365: the figures once the fund's rows df_f are set  *)
Enquadra(regra, d, o, alvo, limite, df_f) ==
    LET msk == _mask_por_alvo(df_f, alvo)
        pos_atual == SomaValor(Filtra(df_f, msk))
        conta_ordem_no_alvo == ContaOrdemNoAlvo(df_f, o, alvo)
        vord == _valor_ordem(o)
        pos_proposta ==
            pos_atual + (IF conta_ordem_no_alvo /\ o.tipo = "compra" THEN vord ELSE 0)
                      - (IF conta_ordem_no_alvo /\ o.tipo = "venda" THEN vord ELSE 0)
        pl == _pl_total(d, o)
        perc_atual == _pct(pos_atual, IF pl # 0 THEN pl ELSE SomaValor(df_f))
        perc_proposto == _pct(pos_proposta, pl)
    IN  RegraResultado(regra, FGe(perc_proposto, limite), perc_atual, perc_proposto, limite, MSG_PCT)

(* lines 276-293 and 321-340, then the figures; cnpj tells the two apart   *)
Enquadramento(regra, d, o, limites_regra, cnpj) ==
    IF _get_fundo_tipo_raises(d) THEN Raise("KeyError: nome do fundo")
    ELSE LET entry == _cfg_for_scope(limites_regra, o.fundo, _get_fundo_tipo(d, o.fundo)) IN
    IF Isento(entry) THEN Ok(RegraResultado(regra, TRUE, Zero, Zero, Zero, MSG_ISENTO))
    ELSE LET e == Coage(entry) IN
    IF ~IsMap(e) THEN Raise("AttributeError: get")
    ELSE IF ~FloatOk(Get(e, "min", YNum(Zero))) THEN Raise("TypeError: float")
    ELSE IF COL_FUNDO \notin d.cols THEN Raise("KeyError: nome do fundo")
    ELSE LET alvo == Get(e, "alvo", EmptyMap)
             limite == Float(Get(e, "min", YNum(Zero)))
             ex_fut == _filtro_futuros(DoFundo(d, o.fundo))
             df_f == IF cnpj /\ COL_CNPJ \in d.cols /\ _is_in_set_norm(o.fundo, _CNPJ_EXCLUDE_FUNDS)
                     THEN Filtra(ex_fut, [k \in 1..Len(ex_fut.rows) |->
                                             Strip(Texto(ex_fut.rows[k].cnpj)) # _TARGET_CNPJ])
                     ELSE ex_fut
         IN
    IF Len(df_f.rows) = 0 \/ COL_VALOR \notin d.cols
    THEN Ok(RegraResultado(regra, FALSE, Zero, Zero, limite, MSG_SEM_LINHAS))
    ELSE IF COL_ATIVO \notin d.cols THEN Raise("KeyError: ativo")
    ELSE Ok(Enquadra(regra, d, o, alvo, limite, df_f))

(* lines 276-319 *)
enquadramento_cvm(d, o, limites_regra) ==
    Enquadramento("enquadramento_cvm", d, o, limites_regra, FALSE)

(* lines 321-365 *)
enquadramento_tributario(d, o, limites_regra) ==
    Enquadramento("enquadramento_tributario", d, o, limites_regra, TRUE)

(* lines 370-376: the entry of prazo_medio's _resolve *)
_resolve_ent(limites, f, tipo) ==
    IF IsMap(limites) /\ f \in DOMAIN limites.map THEN limites.map[f]
    ELSE IF IsMap(limites) /\ tipo \in DOMAIN limites.map THEN limites.map[tipo]
         ELSE YNull

(* line 384: the value float() is applied to *)
Dias(ent) == Get(ent, "dias", Get(ent, "limite", YNum(Zero)))

(* one default, (True, 365), whatever the fund type *)
_resolve_padrao_unico(limites, f, tipo) ==
    LET ent == _resolve_ent(limites, f, tipo) IN
    IF IsNull(ent) THEN <<TRUE, FInt(365)>>
    ELSE IF IsBool(ent) THEN <<ent.bool, Zero>>
    ELSE IF IsNum(ent) THEN <<TRUE, ent.num>>
    ELSE IF IsMap(ent) THEN <<Truthy(Get(ent, "exige", YBool(TRUE))), Float(Dias(ent))>>
    ELSE <<TRUE, FInt(365)>>

(* lines 377-385: <<exige, limite>> *)
_resolve(limites, f, tipo) ==
    LET ent == _resolve_ent(limites, f, tipo) IN
    IF IsNull(ent)
    THEN IF tipo = "ETF" THEN <<TRUE, FInt(720)>>
         ELSE IF tipo \in {"FIA", "FII"} THEN <<FALSE, Zero>>
         ELSE <<TRUE, FInt(365)>>
    ELSE IF IsBool(ent) THEN <<ent.bool, Zero>>
    ELSE IF IsNum(ent) THEN <<TRUE, ent.num>>
    ELSE IF IsMap(ent) THEN <<Truthy(Get(ent, "exige", YBool(TRUE))), Float(Dias(ent))>>
    ELSE <<TRUE, FInt(365)>>

_resolve_raises(limites, f, tipo) ==
    LET ent == _resolve_ent(limites, f, tipo) IN IsMap(ent) /\ ~FloatOk(Dias(ent))

(* line 399: the column __prazo_calc__ *)
PrazoCalc(d) == [k \in 1..Len(d.rows) |-> _calc_prazo_row(d.cols, d.rows[k])]

(* the values of all rows summed, whatever their term *)
SomaPesosTodas(rows, prazos, k) == SomaValorDe(rows, k)

(* lines 403-406: sums over the rows whose computed term is positive *)
RECURSIVE SomaPesosDe(_, _, _)
SomaPesosDe(rows, prazos, k) ==
    IF k > Len(rows) THEN 0
    ELSE (IF FGt(prazos[k], Zero) THEN rows[k].valor ELSE 0) + SomaPesosDe(rows, prazos, k + 1)

RECURSIVE SomaProdDe(_, _, _)
SomaProdDe(rows, prazos, k) ==
    IF k > Len(rows) THEN Zero
    ELSE FAdd(IF FGt(prazos[k], Zero) THEN FMul(FInt(rows[k].valor), prazos[k]) ELSE Zero,
              SomaProdDe(rows, prazos, k + 1))

(* the verdict with proposto >= limite *)
VereditoNaoEstrito(limite, atual, proposto) ==
    RegraResultado("prazo_medio", FGe(proposto, limite), atual, proposto, limite, MSG_DIAS)

(* lines 428-437 *)
VereditoPrazo(limite, atual, proposto) ==
    RegraResultado("prazo_medio", FGt(proposto, limite), atual, proposto, limite, MSG_DIAS)

(* lines 424-426 *)
PropostoPrazo(limite, atual, soma_pesos_prop, soma_prod_prop) ==
    VereditoPrazo(limite, atual,
                  IF soma_pesos_prop > 0 THEN FDiv(soma_prod_prop, FInt(soma_pesos_prop))
                  ELSE atual)

(* line 418 *)
Sinal(o) == IF o.tipo = "compra" THEN 1 ELSE 0 - 1

(* lines 407-422: the current value, and the order added to both sums when *)
(* its term is positive                                                    *)
PrazoDasSomas(o, limite, soma_pesos, soma_prod, prazo_ordem) ==
    PropostoPrazo(limite,
                  IF soma_pesos > 0 THEN FDiv(soma_prod, FInt(soma_pesos)) ELSE Zero,
                  soma_pesos + (IF FGt(prazo_ordem, Zero) THEN Sinal(o) * _valor_ordem(o) ELSE 0),
                  FAdd(soma_prod,
                       IF FGt(prazo_ordem, Zero)
                       THEN FMul(FInt(Sinal(o) * _valor_ordem(o)), prazo_ordem)
                       ELSE Zero))

(* lines 403-406 *)
PrazoDosTermos(o, limite, df_f, prazos, prazo_ordem) ==
    PrazoDasSomas(o, limite, SomaPesosDe(df_f.rows, prazos, 1), SomaProdDe(df_f.rows, prazos, 1),
                  prazo_ordem)

(* lines 412-415: the term of the last row of the order's instrument *)
PrazoOrdem(cols, linha_ativo) ==
    IF Len(linha_ativo) > 0 THEN _calc_prazo_row(cols, linha_ativo[Len(linha_ativo)]) ELSE Zero

(* lines 398-437: the figures once the fund's rows df_f are set *)
PrazoMedio(o, limite, df_f) ==
    PrazoDosTermos(o, limite, df_f, PrazoCalc(df_f),
                   PrazoOrdem(df_f.cols,
                              FiltraDe(df_f.rows,
                                       [k \in 1..Len(df_f.rows) |-> df_f.rows[k].ativo = o.ativo], 1)))

(* lines 367-437 *)
prazo_medio(d, o, limites_regra) ==
    IF _get_fundo_tipo_raises(d) THEN Raise("KeyError: nome do fundo")
    ELSE LET tipo == Upper(_get_fundo_tipo(d, o.fundo)) IN
    IF _resolve_raises(limites_regra, o.fundo, tipo) THEN Raise("TypeError: float")
    ELSE LET par == _resolve(limites_regra, o.fundo, tipo)
             exige == par[1]
             limite == par[2] IN
    IF ~exige THEN Ok(RegraResultado("prazo_medio", TRUE, Zero, Zero, Zero, MSG_ISENTO))
    ELSE IF COL_FUNDO \notin d.cols THEN Raise("KeyError: nome do fundo")
    ELSE LET df_f == _filtro_futuros(DoFundo(d, o.fundo)) IN
    IF Len(df_f.rows) = 0 \/ COL_VALOR \notin d.cols
    THEN Ok(RegraResultado("prazo_medio", FALSE, Zero, Zero, limite, MSG_SEM_DADOS))
    ELSE IF COL_ATIVO \notin d.cols THEN Raise("KeyError: ativo")
    ELSE Ok(PrazoMedio(o, limite, df_f))

--------------------------------------------------------------------------
(* core/engine.py: aplicar_regras (lines 33-61)                            *)

(* lines 33-37: the registry, in insertion order *)
RULES_REGISTRY == <<"enquadramento_cvm", "enquadramento_tributario", "prazo_medio">>

(* line 47: fn(df, ordem, lim) *)
Chama(nome, d, o, lim) ==
    CASE nome = "enquadramento_cvm" -> enquadramento_cvm(d, o, lim)
      [] nome = "enquadramento_tributario" -> enquadramento_tributario(d, o, lim)
      [] nome = "prazo_medio" -> prazo_medio(d, o, lim)

MSG_ERRO == "Erro ao executar a regra"

(* the call of line 47 alone, with no handler around it *)
SemTry(nome, d, o, lim) == Chama(nome, d, o, lim)

(* lines 46-60: try / except Exception: the evaluator's result, or the     *)
(* failing result made of the error it raised                              *)
Tenta(nome, d, o, lim) ==
    LET out == Chama(nome, d, o, lim) IN
    IF out.exc = "" THEN out
    ELSE Ok(RegraResultado(nome, FALSE, Zero, Zero, Zero, <<MSG_ERRO, out.exc>>))

(* line 41: (config or {}).get("limits", {}) *)
ConfigOk(cfg) == ~Truthy(cfg) \/ IsMap(cfg)
Limits(cfg) == IF ~Truthy(cfg) THEN EmptyMap ELSE Get(cfg, "limits", EmptyMap)

(* lines 39-61 as a function: the list returned, or the error raised *)
aplicar_regras(d, o, cfg) ==
    IF ~ConfigOk(cfg) \/ ~IsMap(Limits(cfg)) THEN [exc |-> "AttributeError: get", res |-> <<>>]
    ELSE [exc |-> "",
          res |-> [k \in 1..3 |->
                     Tenta(RULES_REGISTRY[k], d, o, Get(Limits(cfg), RULES_REGISTRY[k], EmptyMap)).res]]

--------------------------------------------------------------------------
(* Input pools of the rule runner and of the evaluators                    *)

ColsRegras ==
    {COL_FUNDO, COL_TIPO_FUNDO, COL_ATIVO, COL_VALOR, COL_CAT, COL_CAT2, COL_CATC,
     COL_TPA, COL_CNPJ, COL_PRAZO}

Linha(f, a, v, t, cat, cat2, tpa, prazo) ==
    [fundo |-> f, ativo |-> a, valor |-> v, tipo_fundo |-> t, tipo |-> <<>>,
     cat |-> <<cat>>, cat2 |-> <<cat2>>, catc |-> <<cat>>, tpa |-> <<tpa>>,
     cnpj |-> <<"">>, prazo_dias |-> prazo]

(* fund ALPHA of type t: a stock, fund units (term 366), a futures row,    *)
(* a debenture with a stored term; and one row of fund BETA                *)
LinhasRegras(t) ==
    << Linha("ALPHA", "X", 6, t, "Renda Variavel", "Outros", "ACOES", <<>>),
       Linha("ALPHA", "Y", 3, t, "Renda Fixa", "Cotas de Fundos", "FUNDOS", <<>>),
       Linha("ALPHA", "F", 5, t, "Futuros", " Futuros ", "FUTURO", <<>>),
       Linha("ALPHA", "Z", 1, t, "Debenture", "Outros", "DEBENTURE", <<800>>),
       Linha("BETA", "X", 4, <<"ETF">>, "Renda Variavel", "Outros", "ACOES", <<>>) >>

(* the fund type cell: FIA written with blanks and small letters, ETF, FII, *)
(* or null                                                                 *)
TiposFundo == {<<" fia ">>, <<"ETF">>, <<"FII">>, <<>>}

Sub(rows, S) == FiltraDe(rows, [k \in 1..Len(rows) |-> k \in S], 1)

CarteirasRegras ==
    {[cols |-> ColsRegras, rows |-> Sub(LinhasRegras(t), S)] :
        t \in TiposFundo, S \in SUBSET (1..5)}
    \cup {[cols |-> ColsRegras \ {c}, rows |-> LinhasRegras(<<"FIM">>)] :
            c \in {COL_FUNDO, COL_ATIVO, COL_VALOR, COL_CAT2, COL_TIPO_FUNDO}}

OrdensRegras ==
    [fundo : {"ALPHA"}, ativo : {"X", "Y", "W"}, quantidade : {2}, preco : {1}, tipo : Tipos]

AlvoRV == YMap([any |-> YList(<<"RENDA VARIAVEL">>)])
AlvoRF == YMap([categoria |-> YList(<<"renda fixa">>)])

(* the mappings one rule can be given in the document *)
MapasEnquadramento ==
    { EmptyMap,
      YNull,
      YMap([ALPHA |-> YStr("abc")]),
      YMap([ALPHA |-> YMap([min |-> YNum(<<1, 2>>), alvo |-> AlvoRV])]) }

MapasPrazo ==
    { EmptyMap,
      YMap([ALPHA |-> YMap([dias |-> YStr("abc")])]),
      YMap([ALPHA |-> YNum(FInt(2))]),
      YMap([ALPHA |-> YBool(FALSE)]) }

Documentos ==
    {YMap([limits |-> YMap([enquadramento_cvm |-> a, enquadramento_tributario |-> b, prazo_medio |-> c])]) :
        a \in MapasEnquadramento, b \in MapasEnquadramento, c \in MapasPrazo}
    \cup { YNull, EmptyMap, YMap([limits |-> YNull]), YList(<<"limits">>),
           YMap([limits |-> YMap([prazo_medio |-> YMap([ALPHA |-> YNum(FInt(2))])])]) }

--------------------------------------------------------------------------
(* aplicar_regras, one step per rule                                       *)

InitRegras ==
    /\ pc = "inicio"
    /\ df0 \in CarteirasRegras
    /\ ordem \in OrdensRegras
    /\ config \in Documentos
    /\ i = 1
    /\ resultados = <<>>
    /\ erro = ""
    /\ ret = None
    /\ avaliador = ""
    /\ heap = None /\ dfp = "none" /\ fundo = "" /\ ordens = <<>>
    /\ SemLote
    /\ RelogioFixo

(* lines 40-41 *)
LeLimits ==
    /\ pc = "inicio"
    /\ IF ConfigOk(config)
       THEN pc' = "laco" /\ UNCHANGED erro
       ELSE pc' = "raised" /\ erro' = "AttributeError: get"
    /\ UNCHANGED <<df0, ordem, config, i, resultados, ret, avaliador>>
    /\ UNCHANGED foraRegras

(* lines 42-60: one iteration; line 45 raises when limits is no mapping,   *)
(* an error raised past the handler leaves the call                        *)
AvaliaRegra ==
    /\ pc = "laco"
    /\ i <= 3
    /\ IF ~IsMap(Limits(config))
       THEN pc' = "raised" /\ erro' = "AttributeError: get" /\ UNCHANGED <<i, resultados>>
       ELSE LET lim == Get(Limits(config), RULES_REGISTRY[i], EmptyMap)
                out == Tenta(RULES_REGISTRY[i], df0, ordem, lim)
            IN  IF out.exc # ""
                THEN pc' = "raised" /\ erro' = out.exc /\ UNCHANGED <<i, resultados>>
                ELSE /\ resultados' = Append(resultados, out.res)
                     /\ i' = i + 1
                     /\ UNCHANGED <<pc, erro>>
    /\ UNCHANGED <<df0, ordem, config, ret, avaliador>>
    /\ UNCHANGED foraRegras

(* line 61 *)
RetornaRegras ==
    /\ pc = "laco"
    /\ i > 3
    /\ ret' = resultados
    /\ pc' = "returned"
    /\ UNCHANGED <<df0, ordem, config, i, resultados, erro, avaliador>>
    /\ UNCHANGED foraRegras

NextRegras == LeLimits \/ AvaliaRegra \/ RetornaRegras

SpecRegras == InitRegras /\ [][NextRegras]_vars

--------------------------------------------------------------------------
(* Properties of aplicar_regras (checked under SpecRegras)                 *)

(* what the k-th evaluator does on the inputs of the call *)
SaidaDe(k) == Chama(RULES_REGISTRY[k], df0, ordem, Get(Limits(config), RULES_REGISTRY[k], EmptyMap))

(* C4: the list holds one result per rule evaluated so far, in the order   *)
(* enquadramento_cvm, enquadramento_tributario, prazo_medio: the           *)
(* evaluator's own result when it returned, else a failing result with     *)
(* zero values and limit that names the rule and carries the error text;   *)
(* a call that got as far as its loop over the rules never raises from an  *)
(* evaluator (the rules after a failing one are evaluated), and returns    *)
(* exactly three results.                                                  *)
C4_TresResultados ==
    /\ pc \in {"laco", "returned"} /\ IsMap(Limits(config)) =>
          /\ Len(resultados) = i - 1
          /\ \A k \in 1..Len(resultados) :
                IF SaidaDe(k).exc = ""
                THEN resultados[k] = SaidaDe(k).res
                ELSE resultados[k] =
                        [regra |-> RULES_REGISTRY[k], passou |-> FALSE, valor_atual |-> Zero,
                         valor_proposto |-> Zero, limite |-> Zero,
                         mensagem |-> <<MSG_ERRO, SaidaDe(k).exc>>]
    /\ pc = "returned" =>
          /\ ret = resultados
          /\ Len(ret) = 3
          /\ \A k \in 1..3 : ret[k].regra = RULES_REGISTRY[k]
    /\ pc = "raised" => i = 1 /\ ~(ConfigOk(config) /\ IsMap(Limits(config)))

(* C4 witness: the first evaluator raised, the second returned a computed  *)
(* figure, the third raised, and three results came back.                  *)
C4_Witness ==
    /\ pc = "returned"
    /\ SaidaDe(1).exc # ""
    /\ SaidaDe(2).exc = "" /\ ret[2].mensagem = MSG_PCT
    /\ SaidaDe(3).exc # ""
    /\ ret[1].mensagem = <<MSG_ERRO, SaidaDe(1).exc>>
    /\ ret[3].passou = FALSE

--------------------------------------------------------------------------
(* One evaluator applied to one input (the pure functions of rules.py)     *)

EntradasFundo ==
    { YNull, YStr("NA"), YStr("~"), YStr("N/A"), YNum(<<1, 2>>), YBool(FALSE),
      YMap([min |-> YNum(<<4, 5>>), alvo |-> AlvoRV]),
      YMap([exige |-> YBool(TRUE), dias |-> YNum(FInt(100))]),
      YMap([exige |-> YBool(FALSE), dias |-> YNum(FInt(100))]),
      YNum(FInt(366)), YBool(TRUE) }

EntradasTipo ==
    { YNull, YStr("NA"), YNum(FInt(2)), YMap([min |-> YNum(<<2, 3>>), alvo |-> AlvoRF]),
      YNum(Zero) }

EntradasOutro == { YNum(FInt(3)) }

(* mappings with any of the keys ALPHA (the fund), FIA (a fund type) and   *)
(* BETA (another fund)                                                     *)
MapasDe(K) ==
    {YMap(m) : m \in [K -> EntradasFundo \cup EntradasTipo \cup EntradasOutro]}

MapaBemFormado(m) ==
    /\ "ALPHA" \in DOMAIN m.map => m.map["ALPHA"] \in EntradasFundo
    /\ "FIA" \in DOMAIN m.map => m.map["FIA"] \in EntradasTipo
    /\ "BETA" \in DOMAIN m.map => m.map["BETA"] \in EntradasOutro

LimitesRegra ==
    {m \in UNION {MapasDe(K) : K \in SUBSET {"ALPHA", "FIA", "BETA"}} : MapaBemFormado(m)}
    \cup {YNull, YList(<<"ALPHA">>)}

(* the orders of the runner's pool, and orders in the futures instrument F *)
(* and in the debenture Z, of which the fund holds less than the order     *)
OrdensAvaliador ==
    OrdensRegras
    \cup [fundo : {"ALPHA"}, ativo : {"F", "Z"}, quantidade : {2}, preco : {1}, tipo : Tipos]

InitAvaliador ==
    /\ pc = "avalia"
    /\ df0 \in CarteirasRegras
    /\ ordem \in OrdensAvaliador
    /\ avaliador \in {RULES_REGISTRY[k] : k \in 1..3}
    /\ config \in LimitesRegra
    /\ ret = None
    /\ i = 1 /\ resultados = <<>> /\ erro = ""
    /\ heap = None /\ dfp = "none" /\ fundo = "" /\ ordens = <<>>
    /\ SemLote
    /\ RelogioFixo

(* fn(df, ordem, limites_regra) *)
Avalia ==
    /\ pc = "avalia"
    /\ ret' = Chama(avaliador, df0, ordem, config)
    /\ pc' = "returned"
    /\ UNCHANGED <<df0, ordem, config, avaliador, i, resultados, erro>>
    /\ UNCHANGED foraRegras

NextAvaliador == Avalia

SpecAvaliador == InitAvaliador /\ [][NextAvaliador]_vars

--------------------------------------------------------------------------
(* Properties of the evaluators (checked under SpecAvaliador)              *)

(* the fund type as the evaluators read it off the snapshot *)
TipoLido == Upper(_get_fundo_tipo(df0, ordem.fundo))

ChaveFundo == IsMap(config) /\ ordem.fundo \in DOMAIN config.map
ChaveTipo == IsMap(config) /\ TipoLido \in DOMAIN config.map

(* the entry the ordered chain fund name -> fund type selects *)
EntradaResolvida ==
    IF ChaveFundo THEN config.map[ordem.fundo] ELSE config.map[TipoLido]

(* the mapping cut down to the one key the chain selects *)
SoChaveEscolhida ==
    IF ChaveFundo THEN YMap((ordem.fundo) :> config.map[ordem.fundo])
    ELSE IF ChaveTipo THEN YMap(TipoLido :> config.map[TipoLido])
         ELSE EmptyMap

(* C9 (as stated): whenever the entry found under the fund-name key, or    *)
(* else under the fund-type key, is null, "~", "NA" or "N/A", each of the  *)
(* three evaluators returns the passing exemption result with current     *)
(* value 0 and proposed value 0.                                           *)
C9_MarcadorIsenta ==
    (/\ pc = "returned"
     /\ ~_get_fundo_tipo_raises(df0)
     /\ ChaveFundo \/ ChaveTipo
     /\ Isento(EntradaResolvida))
    => /\ ret.exc = ""
       /\ ret.res.passou
       /\ ret.res.valor_atual = Zero
       /\ ret.res.valor_proposto = Zero
       /\ ret.res.mensagem = MSG_ISENTO

(* C10: every evaluator's outcome is the outcome on the mapping cut down   *)
(* to the fund-name key when that key exists, else to the fund-type key    *)
(* when that one exists, else on the empty mapping (the built-in default): *)
(* no other key of the mapping has any influence.                          *)
C10_CadeiaOrdenada ==
    pc = "returned" => ret = Chama(avaliador, df0, ordem, SoChaveEscolhida)

(* C10 witness: both keys exist with different entries, and the outcome is *)
(* the fund entry's and not the one the type entry alone would give.       *)
C10_Witness ==
    /\ pc = "returned"
    /\ avaliador = "enquadramento_cvm"
    /\ ChaveFundo /\ ChaveTipo
    /\ "BETA" \in DOMAIN config.map
    /\ ret.exc = "" /\ ret.res.mensagem = MSG_PCT
    /\ ret # Chama(avaliador, df0, ordem, YMap(TipoLido :> config.map[TipoLido]))
    /\ ret = Chama(avaliador, df0, ordem, YMap((ordem.fundo) :> config.map[ordem.fundo]))

--------------------------------------------------------------------------
(* app.py: the handler of the button "Validar Lote" (lines 526-644)        *)

MaxLinhas == 2

(* line 580: the tolerance 1e-9 of the sale validation, in value units *)
Tol == 1

(* app.py lines 50-57 *)
_pl_ex_futuros(d, f) ==
    IF Vazio(d) \/ f = "" THEN 0
    ELSE LET dff == DoFundo(d, f) IN
         SomaValor(IF COL_CAT2 \in dff.cols
                   THEN Filtra(dff, [k \in 1..Len(dff.rows) |->
                                       Lower(Strip(Texto(dff.rows[k].cat2))) # "futuros"])
                   ELSE dff)

(* app.py lines 298-304: the instruments of the selected fund *)
ativos_opts(d, f) == {d.rows[k].ativo : k \in {j \in 1..Len(d.rows) : d.rows[j].fundo = f}}

(* lines 534-535: pd.to_numeric(errors="coerce").fillna(0.0); a cell that  *)
(* is no number is written <<>>                                            *)
ParaNumero(cell) == IF cell = <<>> THEN 0 ELSE cell[1]

(* lines 531-535: one row of orders_safe *)
Saneia(row) ==
    [ativo |-> Strip(row.ativo),
     tipo |-> IF Lower(row.tipo) \in {"compra", "venda"} THEN Lower(row.tipo) ELSE "compra",
     quantidade |-> ParaNumero(row.quantidade),
     preco |-> ParaNumero(row.preco)]

(* core/models.py lines 29-41: the fields after __post_init__ (the handler *)
(* never constructs an order that __post_init__ refuses)                   *)
Ordem(f, a, q, p, t) ==
    [fundo |-> Strip(f), ativo |-> Strip(a), quantidade |-> q, preco |-> p, tipo |-> Lower(Strip(t))]

(* the held value summed over the whole fund, whatever the instrument *)
valor_no_fundo(df_base, f, o) ==
    IF COL_VALOR \in df_base.cols THEN SomaValor(DoFundo(df_base, f)) ELSE 0

(* lines 570-571 *)
valor_em_carteira(df_base, f, o) ==
    IF COL_VALOR \in df_base.cols
    THEN SomaValor(Filtra(df_base, [k \in 1..Len(df_base.rows) |->
                             df_base.rows[k].fundo = f /\ df_base.rows[k].ativo = o.ativo]))
    ELSE 0

(* lines 567-584: the list erros; an item is the reason and the instrument *)
RECURSIVE ErrosDe(_, _, _, _)
ErrosDe(df_base, f, os, k) ==
    IF k > Len(os) THEN <<>>
    ELSE LET o == os[k]
             vc == valor_em_carteira(df_base, f, o)
             valor_da_venda == o.quantidade * o.preco
         IN  (IF o.tipo # "venda" THEN <<>>
              ELSE IF vc <= 0 THEN <<[motivo |-> "sem posicao", ativo |-> o.ativo]>>
              ELSE IF valor_da_venda > vc + Tol THEN <<[motivo |-> "excede", ativo |-> o.ativo]>>
              ELSE <<>>)
             \o ErrosDe(df_base, f, os, k + 1)

(* lines 595-600 *)
TipoFundoBase(df_base, f) ==
    LET tipos == NaoNulos(df_base, f, COL_TIPO_FUNDO) IN
    IF COL_TIPO_FUNDO \in df_base.cols /\ tipos # <<>> THEN Strip(tipos[1][1]) ELSE ""

(* lines 606-610: the last registration row of the instrument, blank      *)
(* classifications when there is none                                      *)
RECURSIVE CadDe(_, _, _)
CadDe(cad, a, k) ==
    IF k = 0 THEN [ativo |-> a, tpa |-> "", cat |-> "", cat2 |-> "", catc |-> ""]
    ELSE IF cad[k].ativo = a THEN cad[k] ELSE CadDe(cad, a, k - 1)

(* lines 612-617: the row added for a new instrument *)
NovaLinha(f, tipo_fundo, a, cad) ==
    LET c == CadDe(cad, a, Len(cad)) IN
    [fundo |-> f, ativo |-> a, valor |-> 0, tipo_fundo |-> <<tipo_fundo>>, tipo |-> <<>>,
     cat |-> <<c.cat>>, cat2 |-> <<c.cat2>>, catc |-> <<c.catc>>, tpa |-> <<c.tpa>>,
     cnpj |-> <<>>, prazo_dias |-> <<>>]

(* lines 593-623 *)
RECURSIVE InsereDe(_, _, _, _, _, _)
InsereDe(df_base, f, tipo_fundo, novos, cad, k) ==
    IF k > Len(novos) THEN df_base
    ELSE LET exists == \E j \in 1..Len(df_base.rows) :
                          df_base.rows[j].fundo = f /\ df_base.rows[j].ativo = novos[k]
         IN  InsereDe(IF exists THEN df_base
                      ELSE [df_base EXCEPT !.rows = Append(@, NovaLinha(f, tipo_fundo, novos[k], cad))],
                      f, tipo_fundo, novos, cad, k + 1)

InsereNovos(df_base, f, novos, cad) ==
    IF novos = <<>> THEN df_base
    ELSE InsereDe(df_base, f, TipoFundoBase(df_base, f), novos, cad, 1)

(* core/engine.py lines 29-31: yaml.safe_load(f) or {} *)
carregar_regras(doc) == IF Truthy(doc) THEN doc ELSE EmptyMap

(* line 632 *)
ordem_dummy(f, os) == Ordem(f, os[1].ativo, 0, 0, "compra")

(* one entry of the call history *)
Chamada(op, d, os, fim) == [op |-> op, df |-> d, ordens |-> os, fim |-> fim]

(* lines 558-644, run once the order of the row has been appended: what    *)
(* the statements after the append do with the list os built so far.       *)
(*   fim: "stop" (st.stop), "except" (the handler of line 643), "sem       *)
(*   arquivo" (no rules file), "ok" (results stored)                       *)

(* lines 638-644: the outcome out of aplicar_regras *)
AposRegras(nada, c1, pl, df_prop, os, out) ==
    IF out.exc # ""
    THEN [nada EXCEPT !.fim = "except", !.exc = out.exc, !.pl = <<pl>>,
                      !.log = <<c1, Chamada("aplicar_regras", df_prop, os, "raise")>>]
    ELSE [nada EXCEPT !.fim = "ok", !.pl = <<pl>>, !.res = out.res,
                      !.log = <<c1, Chamada("aplicar_regras", df_prop, os, "return")>>]

(* lines 626-637: the outcome r of aplicar_ordens_no_df *)
AposOrdens(nada, base2, f, os, path, doc, r) ==
    IF r.erro # ""
    THEN [nada EXCEPT !.fim = "except", !.exc = r.erro,
                      !.log = <<Chamada("aplicar_ordens_no_df", base2, os, "raise")>>]
    ELSE IF path = ""
    THEN [nada EXCEPT !.fim = "sem arquivo", !.pl = <<_pl_ex_futuros(r.df, f)>>,
                      !.log = <<Chamada("aplicar_ordens_no_df", base2, os, "return")>>]
    ELSE AposRegras(nada, Chamada("aplicar_ordens_no_df", base2, os, "return"),
                    _pl_ex_futuros(r.df, f), r.df, os,
                    aplicar_regras(r.df, ordem_dummy(f, os), carregar_regras(doc)))

(* lines 592-626: the snapshot base2 with the new instruments *)
AposValidar(nada, base2, f, os, path, doc) ==
    AposOrdens(nada, base2, f, os, path, doc, aplicar_ordens_no_df(base2, f, os))

(* lines 565-590: the list erros of the sale validation *)
AposErros(erros, ss, f, os, novos, path, doc) ==
    IF erros # <<>>
    THEN [fim |-> "stop", erros |-> erros, exc |-> "", pl |-> <<>>, res |-> <<>>, log |-> <<>>]
    ELSE AposValidar([fim |-> "", erros |-> <<>>, exc |-> "", pl |-> <<>>, res |-> <<>>, log |-> <<>>],
                     InsereNovos(ss.df, f, novos, ss.cad_novos), f, os, path, doc)

Corpo(ss, f, os, novos, path, doc) ==
    AposErros(ErrosDe(ss.df, f, os, 1), ss, f, os, novos, path, doc)

(* ---- input pools of the handler ---- *)

(* the loaded snapshot: every column present (core/loader.py creates the   *)
(* missing ones); fund ALPHA holds X on one row or on two, N with value 0  *)
CarteirasLote ==
    { [cols |-> ColsRegras,
       rows |-> << Linha("ALPHA", "X", 6, <<" fia ">>, "Renda Variavel", "Outros", "ACOES", <<>>),
                   Linha("ALPHA", "Y", 3, <<" fia ">>, "Renda Fixa", "Cotas de Fundos", "FUNDOS", <<>>),
                   Linha("ALPHA", "F", 5, <<" fia ">>, "Futuros", " Futuros ", "FUTURO", <<>>),
                   Linha("ALPHA", "N", 0, <<" fia ">>, "Caixa", "Outros", "CONTAS CORRENTES", <<>>),
                   Linha("BETA", "X", 4, <<"ETF">>, "Renda Variavel", "Outros", "ACOES", <<>>) >>],
      [cols |-> ColsRegras,
       rows |-> << Linha("ALPHA", "X", 6, <<"ETF">>, "Renda Variavel", "Outros", "ACOES", <<>>),
                   Linha("ALPHA", "X", 2, <<"ETF">>, "Renda Variavel", "Outros", "ACOES", <<>>),
                   Linha("ALPHA", "Z", 1, <<"ETF">>, "Debenture", "Outros", "DEBENTURE", <<800>>),
                   Linha("ALPHA", "Y", 3, <<"ETF">>, "Renda Fixa", "Cotas de Fundos", "FUNDOS", <<>>) >>] }

LinhaEditor(a, q, p, t) == [ativo |-> a, quantidade |-> q, preco |-> p, tipo |-> t]

(* rows of the order editor *)
LinhasEditor ==
    { LinhaEditor("X", <<1>>, <<3>>, "compra"),
      LinhaEditor(" X ", <<1>>, <<7>>, "venda"),
      LinhaEditor("X", <<2>>, <<4>>, "VENDA"),
      LinhaEditor("X", <<2>>, <<5>>, "venda"),
      LinhaEditor("Y", <<2>>, <<3>>, "venda"),
      LinhaEditor("N", <<1>>, <<1>>, "venda"),
      LinhaEditor("W", <<1>>, <<3>>, "compra"),
      LinhaEditor("", <<1>>, <<3>>, "compra"),
      LinhaEditor("X", <<>>, <<3>>, "venda"),
      LinhaEditor("Y", <<1>>, <<2>>, " Venda") }

(* the registration of new instruments: none, or W classified as a stock *)
Cadastros ==
    { <<>>,
      <<[ativo |-> "W", tpa |-> "ACOES", cat |-> "Renda Variavel", cat2 |-> "Outros",
         catc |-> "Renda Variavel"]>> }

(* the rules file: limits for the three rules, an empty file, a file       *)
(* whose limits key is null                                                *)
DocumentosLote ==
    { YMap([limits |-> YMap([enquadramento_cvm |->
                                 YMap([ALPHA |-> YMap([min |-> YNum(<<1, 2>>), alvo |-> AlvoRV])]),
                             enquadramento_tributario |-> YMap([ETF |-> YNum(<<2, 3>>)]),
                             prazo_medio |-> YMap([ALPHA |-> YNum(FInt(100))])])]),
      YNull,
      YMap([limits |-> YNull]) }

SessoesLote ==
    { [df |-> d, orders_df |-> o, permitir_ativo_novo |-> pm, cad_novos |-> cad,
       resultados |-> <<>>, pl_total |-> <<>>, fundo |-> f, ordens_lote |-> <<>>] :
        d \in CarteirasLote, o \in SeqsAte(LinhasEditor, MaxLinhas),
        pm \in BOOLEAN, cad \in Cadastros, f \in Funds }

(* a session with a loaded snapshot, a selected fund (line 250) and no     *)
(* validated batch yet; the button has just been pressed                   *)
InitLote ==
    /\ pc = "clique"
    /\ session_state \in
          {ss \in SessoesLote : /\ ss.fundo \in {ss.df.rows[k].fundo : k \in 1..Len(ss.df.rows)}
                                /\ (~ss.permitir_ativo_novo => ss.cad_novos = <<>>)}
    /\ fundo = session_state.fundo
    /\ \/ yaml_path = "" /\ config = None
       \/ yaml_path = "config/rules_config.yaml" /\ config \in DocumentosLote
    /\ ordens = <<>> /\ invalidos = 0 /\ novos_para_inserir = <<>>
    /\ i = 1
    /\ ui = [info |-> <<>>, erros |-> <<>>, excecoes |-> <<>>, sem_arquivo |-> 0]
    /\ chamadas = <<>>
    /\ heap = None /\ dfp = "none" /\ df0 = None /\ ret = None /\ erro = ""
    /\ ordem = None /\ resultados = <<>> /\ avaliador = ""
    /\ RelogioFixo

(* lines 526-540 *)
Clique ==
    /\ pc = "clique"
    /\ ordens' = <<>>
    /\ invalidos' = 0
    /\ novos_para_inserir' = <<>>
    /\ i' = 1
    /\ pc' = "linhas"
    /\ UNCHANGED <<fundo, config, session_state, ui, chamadas, yaml_path>>
    /\ UNCHANGED foraLote

(* lines 558-644: what the page and the session keep of the outcome c *)
Efeito(novos, os, c) ==
    /\ novos_para_inserir' = novos
    /\ ordens' = os
    /\ chamadas' = chamadas \o c.log
    /\ ui' = [info |-> IF invalidos > 0 THEN Append(ui.info, invalidos) ELSE ui.info,
              erros |-> c.erros,
              excecoes |-> IF c.fim = "except" THEN Append(ui.excecoes, c.exc) ELSE ui.excecoes,
              sem_arquivo |-> ui.sem_arquivo + (IF c.fim = "sem arquivo" THEN 1 ELSE 0)]
    /\ session_state' =
          [session_state EXCEPT
              !.pl_total = IF c.pl # <<>> THEN c.pl ELSE @,
              !.resultados = IF c.fim = "ok" THEN c.res ELSE @,
              !.ordens_lote = IF c.fim = "ok" THEN <<"ordens">> ELSE @]
    /\ IF c.fim = "stop" THEN pc' = "parado" /\ UNCHANGED i
       ELSE i' = i + 1 /\ UNCHANGED pc
    /\ UNCHANGED invalidos

(* lines 553-556, then the rest of the body *)
ComOrdem(novos, os) == Efeito(novos, os, Corpo(session_state, fundo, os, novos, yaml_path, config))

(* lines 542-644: one iteration of the loop over orders_safe; the          *)
(* statements of lines 558-644 are part of the loop body                   *)
ProcessaLinha ==
    /\ pc = "linhas"
    /\ i <= Len(session_state.orders_df)
    /\ LET row == Saneia(session_state.orders_df[i]) IN
       IF row.ativo = ""
       THEN /\ i' = i + 1
            /\ UNCHANGED <<pc, ordens, invalidos, novos_para_inserir, session_state, ui, chamadas>>
       ELSE IF row.quantidade <= 0 \/ row.preco <= 0 \/ row.tipo \notin {"compra", "venda"}
       THEN /\ invalidos' = invalidos + 1
            /\ i' = i + 1
            /\ UNCHANGED <<pc, ordens, novos_para_inserir, session_state, ui, chamadas>>
       ELSE ComOrdem(IF session_state.permitir_ativo_novo
                        /\ row.ativo \notin ativos_opts(session_state.df, fundo)
                     THEN Append(novos_para_inserir, row.ativo)
                     ELSE novos_para_inserir,
                     Append(ordens, Ordem(fundo, row.ativo, row.quantidade, row.preco, row.tipo)))
    /\ UNCHANGED <<fundo, config, yaml_path>>
    /\ UNCHANGED foraLote

(* the loop has run over every row: the handler is done *)
FimDoLote ==
    /\ pc = "linhas"
    /\ i > Len(session_state.orders_df)
    /\ pc' = "fim"
    /\ UNCHANGED <<fundo, config, ordens, i, invalidos, novos_para_inserir, session_state, ui,
                   chamadas, yaml_path>>
    /\ UNCHANGED foraLote

NextLote == Clique \/ ProcessaLinha \/ FimDoLote

SpecLote == InitLote /\ [][NextLote]_vars

(* st.session_state.ordens_lote is the list object ordens itself *)
OrdensLote == IF session_state.ordens_lote = <<>> THEN <<>> ELSE ordens

--------------------------------------------------------------------------
(* Properties of the batch handler (checked under SpecLote)                *)

(* value of instrument a held by the selected fund in the pre-order        *)
(* snapshot: the sum of valor over the matching rows                       *)
RECURSIVE DetidoDe(_, _, _)
DetidoDe(rows, a, k) ==
    IF k > Len(rows) THEN 0
    ELSE (IF rows[k].fundo = session_state.fundo /\ rows[k].ativo = a THEN rows[k].valor ELSE 0)
         + DetidoDe(rows, a, k + 1)

Detido(a) == DetidoDe(session_state.df.rows, a, 1)

(* a sell the sale validation has to reject *)
VendaRecusavel(o) ==
    /\ o.tipo = "venda"
    /\ \/ Detido(o.ativo) <= 0
       \/ o.quantidade * o.preco > Detido(o.ativo) + Tol

(* the rows of the editor that become orders, and the orders they become *)
ViraOrdem(row) == Saneia(row).ativo # "" /\ Saneia(row).quantidade > 0 /\ Saneia(row).preco > 0
OrdemDaLinha(row) ==
    Ordem(session_state.fundo, Saneia(row).ativo, Saneia(row).quantidade, Saneia(row).preco,
          Saneia(row).tipo)

(* the sell orders of the batch that fail the sale validation *)
FalhasDoLote ==
    {k \in 1..Len(session_state.orders_df) :
        /\ ViraOrdem(session_state.orders_df[k])
        /\ VendaRecusavel(OrdemDaLinha(session_state.orders_df[k]))}

(* C5 (as stated): once a sell order of the batch has failed the sale      *)
(* validation, neither aplicar_ordens_no_df nor aplicar_regras has been    *)
(* called for the batch or a prefix of it, and the session holds no rule   *)
(* results, proposed PL or order list.                                     *)
C5_LoteAbortado ==
    pc = "parado" =>
        /\ chamadas = <<>>
        /\ session_state.resultados = <<>>
        /\ session_state.pl_total = <<>>
        /\ OrdensLote = <<>>

(* C6 (as stated): when two or more sell orders of the batch fail the sale *)
(* validation, the error list on the page has one item per failing order.  *)
C6_UmItemPorFalha ==
    (pc = "parado" /\ Cardinality(FalhasDoLote) >= 2) =>
        Len(ui.erros) = Cardinality(FalhasDoLote)

(* C7: every sell order the handler has built whose value exceeds the held *)
(* value of its instrument by more than the tolerance, or whose instrument *)
(* has a held value <= 0, is rejected: the handler stopped at that order   *)
(* with an error item naming the instrument and the reason, and no call to *)
(* aplicar_ordens_no_df or aplicar_regras ever received it. The handler    *)
(* stops for no other order.                                               *)
C7_VendaRejeitada ==
    /\ \A k \in 1..Len(ordens) :
          VendaRecusavel(ordens[k]) =>
              /\ pc = "parado"
              /\ k = Len(ordens)
              /\ [motivo |-> IF Detido(ordens[k].ativo) <= 0 THEN "sem posicao" ELSE "excede",
                  ativo |-> ordens[k].ativo] \in Range(ui.erros)
              /\ \A c \in Range(chamadas) : Len(c.ordens) < k
    /\ pc = "parado" => VendaRecusavel(ordens[Len(ordens)])
    /\ pc # "parado" => ui.erros = <<>>

(* C7 witness: the fund holds X for 6; a sell of X worth 7 (within the     *)
(* tolerance) went through, the next sell of X, worth 8, was rejected.     *)
C7_Witness ==
    /\ pc = "parado"
    /\ Len(ordens) = 2
    /\ ordens[1].tipo = "venda" /\ ordens[1].ativo = "X"
    /\ ordens[1].quantidade * ordens[1].preco = Detido("X") + Tol
    /\ ordens[2].tipo = "venda" /\ ordens[2].ativo = "X"
    /\ ordens[2].quantidade * ordens[2].preco = Detido("X") + 2 * Tol
    /\ ui.erros = <<[motivo |-> "excede", ativo |-> "X"]>>
    /\ Len(chamadas) >= 1 /\ chamadas[1].ordens = <<ordens[1]>>

(* the limits of the k-th rule in the rules file *)
LimDe(k) == Get(Limits(carregar_regras(config)), RULES_REGISTRY[k], EmptyMap)

(* the snapshot handed to the call of aplicar_regras whose results are in  *)
(* the session: the last one that returned                                 *)
RECURSIVE UltimaAvaliada(_)
UltimaAvaliada(k) ==
    IF chamadas[k].op = "aplicar_regras" /\ chamadas[k].fim = "return" THEN chamadas[k]
    ELSE UltimaAvaliada(k - 1)

(* the k-th rule's metric on a snapshot d: the current value the evaluator *)
(* computes on d                                                           *)
Metrica(k, d) == Chama(RULES_REGISTRY[k], d, ordem_dummy(fundo, ordens), LimDe(k))

Calculado(r) == r.mensagem \in {MSG_PCT, MSG_DIAS}

(* C8 (as stated): in every stored result that carries a computed figure,  *)
(* valor_atual is the rule's metric on the snapshot before the orders of   *)
(* the batch and valor_proposto the metric on the snapshot after them.     *)
C8_AntesEDepois ==
    session_state.resultados # <<>> =>
        \A k \in 1..3 :
            (/\ Calculado(session_state.resultados[k])
             /\ Metrica(k, session_state.df).exc = ""
             /\ Calculado(Metrica(k, session_state.df).res))
            => /\ session_state.resultados[k].valor_atual
                     = Metrica(k, session_state.df).res.valor_atual
               /\ session_state.resultados[k].valor_proposto
                     = Metrica(k, UltimaAvaliada(Len(chamadas)).df).res.valor_atual

--------------------------------------------------------------------------
(* The allocation rules on a structured entry (checked under SpecAvaliador) *)

(* the rows of the order's fund outside the secondary category Futuros *)
ExFuturos(d, f) ==
    Filtra(d, [k \in 1..Len(d.rows) |->
                 d.rows[k].fundo = f /\ Lower(Strip(Texto(d.rows[k].cat2))) # "futuros"])

(* the entry found is structured: a mapping with a numeric min and a target *)
EntradaEstruturada ==
    /\ ChaveFundo \/ ChaveTipo
    /\ IsMap(EntradaResolvida)
    /\ {"min", "alvo"} \subseteq DOMAIN EntradaResolvida.map
    /\ IsNum(EntradaResolvida.map.min)

(* matched value of the rows: the sum of valor over the rows the target selects *)
ValorCasado(rows_f, alvo) == SomaValor(Filtra(rows_f, _mask_por_alvo(rows_f, alvo)))

(* the order's instrument has a row among rows_f that the target selects *)
OrdemCasada(rows_f, o, alvo) ==
    \E k \in 1..Len(rows_f.rows) :
        rows_f.rows[k].ativo = o.ativo /\ _mask_por_alvo(rows_f, alvo)[k]

(* matched value after the order *)
ValorCasadoProposto(rows_f, o, alvo) ==
    ValorCasado(rows_f, alvo)
    + (IF ~OrdemCasada(rows_f, o, alvo) THEN 0
       ELSE IF o.tipo = "compra" THEN o.quantidade * o.preco
       ELSE 0 - o.quantidade * o.preco)

Razao(x, nav) == IF nav = 0 THEN Zero ELSE Frac(x, nav)

--------------------------------------------------------------------------
(* The target selector on its own (rules.py, _mask_por_alvo)               *)

(* fund-scoped snapshots: any choice of the rows of ALPHA, every column or *)
(* one classification column or the instrument column missing              *)
CarteirasAlvo ==
    {[cols |-> ColsRegras, rows |-> Sub(SubSeq(LinhasRegras(<<"FIM">>), 1, 4), S)] :
        S \in SUBSET (1..4)}
    \cup {[cols |-> ColsRegras \ {c}, rows |-> SubSeq(LinhasRegras(<<"FIM">>), 1, 4)] :
            c \in {COL_CAT, COL_CAT2, COL_ATIVO}}

(* one value per key of a target spec *)
ValorDaChave ==
    [ativo_equals |-> YList(<<" x ">>),
     ativo_prefix |-> YList(<<"Y">>),
     any |-> YList(<<"RENDA VARIAVEL">>),
     categoria |-> YList(<<"debenture">>),
     regex |-> YStr("fut")]

ChavesSimples == {"ativo_equals", "ativo_prefix", "any", "categoria", "regex"}

(* specs without groups / all: every set of the simple keys; and two       *)
(* values that are no mapping                                              *)
AlvosSimples ==
    {YMap([k \in K |-> ValorDaChave[k]]) : K \in SUBSET ChavesSimples}
    \cup {YNull, YStr("any")}

(* a few specs that are themselves compositions *)
AlvosAninhados ==
    { YMap([groups |-> YList(<<AlvoRV, AlvoRF>>)]),
      YMap([all |-> YList(<<AlvoRV, YMap([ativo_equals |-> YList(<<"X">>)])>>)]),
      YMap([groups |-> YList(<<>>)]),
      YMap([all |-> YList(<<>>)]) }

SubAlvos == AlvosSimples \cup AlvosAninhados

(* groups or all next to other keys *)
AlvosMistos ==
    { YMap([groups |-> YList(<<AlvoRV>>), categoria |-> YList(<<"debenture">>)]),
      YMap([all |-> YList(<<AlvoRV>>), any |-> YList(<<"renda fixa">>)]),
      YMap([groups |-> YList(<<AlvoRF>>), all |-> YList(<<AlvoRV>>)]) }

Alvos ==
    SubAlvos \cup AlvosMistos
    \cup {YMap([groups |-> YList(<<a, b>>)]) : a \in SubAlvos, b \in SubAlvos}
    \cup {YMap([all |-> YList(<<a, b>>)]) : a \in SubAlvos, b \in SubAlvos}

InitAlvo ==
    /\ pc = "seleciona"
    /\ df0 \in CarteirasAlvo
    /\ config \in Alvos
    /\ ret = None
    /\ i = 1 /\ resultados = <<>> /\ erro = "" /\ ordem = None /\ avaliador = ""
    /\ heap = None /\ dfp = "none" /\ fundo = "" /\ ordens = <<>>
    /\ SemLote
    /\ RelogioFixo

(* _mask_por_alvo(df_fundo, alvo) *)
Seleciona ==
    /\ pc = "seleciona"
    /\ ret' = _mask_por_alvo(df0, config)
    /\ pc' = "returned"
    /\ UNCHANGED <<df0, ordem, config, avaliador, i, resultados, erro>>
    /\ UNCHANGED foraRegras

NextAlvo == Seleciona

SpecAlvo == InitAlvo /\ [][NextAlvo]_vars

(* the spec is exactly {key: [A, B]} *)
SoComposto(key) ==
    /\ IsMap(config) /\ DOMAIN config.map = {key}
    /\ IsList(config.map[key]) /\ Len(config.map[key].list) = 2

(* C12: the mask has one entry per row of the snapshot; the mask of        *)
(* {groups: [A, B]} is the row-wise OR of the masks of A and of B, the     *)
(* mask of {all: [A, B]} their row-wise AND.                               *)
C12_Composicao ==
    pc = "returned" =>
        /\ DOMAIN ret = 1..Len(df0.rows)
        /\ SoComposto("groups") =>
              \A k \in 1..Len(df0.rows) :
                  ret[k] = (\/ _mask_por_alvo(df0, config.map["groups"].list[1])[k]
                            \/ _mask_por_alvo(df0, config.map["groups"].list[2])[k])
        /\ SoComposto("all") =>
              \A k \in 1..Len(df0.rows) :
                  ret[k] = (/\ _mask_por_alvo(df0, config.map["all"].list[1])[k]
                            /\ _mask_por_alvo(df0, config.map["all"].list[2])[k])

(* C12 witness: groups of two sub-specs that select different rows, on a   *)
(* snapshot of four rows: a row only A selects, a row only B selects and a *)
(* row neither selects.                                                    *)
C12_Witness ==
    /\ pc = "returned"
    /\ SoComposto("groups")
    /\ Len(df0.rows) = 4
    /\ \E a, b, c \in 1..4 :
          /\ _mask_por_alvo(df0, config.map["groups"].list[1])[a]
          /\ ~_mask_por_alvo(df0, config.map["groups"].list[2])[a]
          /\ ~_mask_por_alvo(df0, config.map["groups"].list[1])[b]
          /\ _mask_por_alvo(df0, config.map["groups"].list[2])[b]
          /\ ret[a] /\ ret[b] /\ ~ret[c]

ChavesReconhecidas ==
    {"groups", "all", "ativo_equals", "ativo_prefix", "any", "regex",
     COL_CAT, COL_CAT2, COL_CATC, COL_TPA}

(* the spec cut down to one of its keys *)
SoChave(alvo, key) == YMap([x \in {key} |-> alvo.map[x]])

(* C13 (as stated): for a spec with two or more recognized keys the mask   *)
(* is the row-wise OR of the masks of the spec cut down to each key.       *)
C13_OuDasChaves ==
    (/\ pc = "returned"
     /\ IsMap(config)
     /\ Cardinality(DOMAIN config.map \cap ChavesReconhecidas) >= 2)
    => \A k \in 1..Len(df0.rows) :
          ret[k] = (\E key \in DOMAIN config.map \cap ChavesReconhecidas :
                       _mask_por_alvo(df0, SoChave(config, key))[k])

--------------------------------------------------------------------------
(* The Futuros exclusion (checked under SpecAvaliador)                     *)

(* the snapshot without the rows of fund f whose secondary category is     *)
(* Futuros; a snapshot lacking one of the two columns has no such row      *)
SemFuturosDoFundo(d, f) ==
    IF COL_CAT2 \notin d.cols \/ COL_FUNDO \notin d.cols THEN d
    ELSE Filtra(d, [k \in 1..Len(d.rows) |->
                      ~(d.rows[k].fundo = f /\ Lower(Strip(Texto(d.rows[k].cat2))) = "futuros")])

(* the fund type the evaluators read is the same with and without the      *)
(* fund's Futuros rows                                                     *)
MesmoTipoSemFuturos ==
    _get_fundo_tipo_raises(df0)
    \/ _get_fundo_tipo(SemFuturosDoFundo(df0, ordem.fundo), ordem.fundo)
         = _get_fundo_tipo(df0, ordem.fundo)

(* C14: the Futuros rows of the fund contribute to no figure of any of the *)
(* three evaluators (matched value, NAV denominator, average-term sums,    *)
(* lookup of the order's instrument): whenever the fund type read from the *)
(* snapshot does not hinge on a Futuros row, the outcome is the outcome on *)
(* the same snapshot with the fund's Futuros rows taken out.               *)
C14_FuturosForaDasContas ==
    (pc = "returned" /\ MesmoTipoSemFuturos)
    => ret = Chama(avaliador, SemFuturosDoFundo(df0, ordem.fundo), ordem, config)

(* C14 witness: the tax rule on the five rows, a futures row of 5 among    *)
(* them, with a buy order in the futures instrument: 6 of a NAV of 10      *)
(* before and after.                                                       *)
C14_Witness ==
    /\ pc = "returned"
    /\ avaliador = "enquadramento_tributario"
    /\ Len(df0.rows) = 5
    /\ MesmoTipoSemFuturos
    /\ ordem.ativo = "F" /\ ordem.tipo = "compra"
    /\ ret.exc = ""
    /\ ret.res.mensagem = MSG_PCT
    /\ ret.res.valor_atual = <<3, 5>>
    /\ ret.res.valor_proposto = <<3, 5>>

(* C14 as stated: two snapshots that differ only in the fund's Futuros     *)
(* rows yield the same result, whatever the rows are.                      *)
C14_FuturosForaDeTudo ==
    pc = "returned"
    => ret = Chama(avaliador, SemFuturosDoFundo(df0, ordem.fundo), ordem, config)

--------------------------------------------------------------------------
(* The tax rule next to the regulatory rule (rules.py, lines 276-365)      *)

FundosTrib == {"ALPHA", "Brutus", "Távola"}

CNPJ_OUTRO == "11.111.111/0001-11"

LinhaCnpj(f, a, v, cat, cat2, cnpj) ==
    [fundo |-> f, ativo |-> a, valor |-> v, tipo_fundo |-> <<"FIM">>, tipo |-> <<>>,
     cat |-> <<cat>>, cat2 |-> <<cat2>>, catc |-> <<cat>>, tpa |-> <<"ACOES">>,
     cnpj |-> cnpj, prazo_dias |-> <<>>]

(* fund f: a stock under another tax ID, a stock and a futures row under   *)
(* the reference tax ID (once written with blanks), a stock with no tax    *)
(* ID, and a liability of -10 under the reference tax ID                   *)
LinhasTrib(f) ==
    << LinhaCnpj(f, "X", 6, "Renda Variavel", "Outros", <<CNPJ_OUTRO>>),
       LinhaCnpj(f, "T", 4, "Renda Variavel", "Outros", <<" 28.819.553/0001-90 ">>),
       LinhaCnpj(f, "F", 5, "Futuros", "Futuros", <<_TARGET_CNPJ>>),
       LinhaCnpj(f, "Y", 2, "Renda Fixa", "Outros", <<>>),
       LinhaCnpj(f, "N", 0 - 10, "Renda Fixa", "Outros", <<_TARGET_CNPJ>>) >>

CarteirasTrib ==
    {[cols |-> ColsRegras \ C, rows |-> Sub(LinhasTrib(f), S)] :
        C \in {{}, {COL_CNPJ}}, f \in FundosTrib, S \in SUBSET (1..5)}

OrdensTrib ==
    [fundo : FundosTrib, ativo : {"X", "T", "W"}, quantidade : {2}, preco : {1}, tipo : Tipos]

(* the rule's mapping, keyed by the fund type FIM or by the fund ALPHA *)
LimitesTrib ==
    { YMap([FIM |-> YMap([min |-> YNum(<<1, 2>>), alvo |-> AlvoRV])]),
      YMap([FIM |-> YNum(<<1, 2>>)]),
      YMap([FIM |-> YNull, ALPHA |-> YMap([min |-> YNum(<<3, 4>>), alvo |-> AlvoRF])]),
      YMap([FIM |-> YStr("abc")]),
      EmptyMap }

InitTributario ==
    /\ pc = "avalia"
    /\ df0 \in CarteirasTrib
    /\ ordem \in OrdensTrib
    /\ avaliador \in {"enquadramento_cvm", "enquadramento_tributario"}
    /\ config \in LimitesTrib
    /\ ret = None
    /\ i = 1 /\ resultados = <<>> /\ erro = ""
    /\ heap = None /\ dfp = "none" /\ fundo = "" /\ ordens = <<>>
    /\ SemLote
    /\ RelogioFixo

SpecTributario == InitTributario /\ [][NextAvaliador]_vars

(* the fund names of the allow-list, as spelt in the snapshots *)
NaListaDeFundos(f) == f \in {"Brutus", "Távola"}

(* the figures of a result: pass/fail, current value, proposed value, limit *)
Figuras(out) ==
    IF out.exc # "" THEN <<out.exc>>
    ELSE <<out.res.passou, out.res.valor_atual, out.res.valor_proposto, out.res.limite>>

(* the rows of ExFuturos whose tax ID is not the reference ID *)
ForaCnpj(rows_f) ==
    Filtra(rows_f, [k \in 1..Len(rows_f.rows) |->
                      Strip(Texto(rows_f.rows[k].cnpj)) # "28.819.553/0001-90"])

--------------------------------------------------------------------------
(* The average-term configuration (checked under SpecAvaliador)            *)

(* the pair (requires_check, limit_days) for the entry the chain selects:  *)
(* the default of the fund type without an entry, (true, v) for a number   *)
(* v, both fields of a structured entry                                    *)
ParEsperado ==
    IF ~(ChaveFundo \/ ChaveTipo)
    THEN CASE TipoLido = "ETF" -> <<TRUE, <<720, 1>>>>
           [] TipoLido \in {"FIA", "FII"} -> <<FALSE, <<0, 1>>>>
           [] OTHER -> <<TRUE, <<365, 1>>>>
    ELSE IF IsNum(EntradaResolvida) THEN <<TRUE, EntradaResolvida.num>>
         ELSE <<EntradaResolvida.map.exige.bool, EntradaResolvida.map.dias.num>>

(* no entry, a number, or a structured entry {exige: bool, dias: number} *)
EntradaDePrazo ==
    \/ ~(ChaveFundo \/ ChaveTipo)
    \/ IsNum(EntradaResolvida)
    \/ /\ IsMap(EntradaResolvida)
       /\ {"exige", "dias"} \subseteq DOMAIN EntradaResolvida.map
       /\ IsBool(EntradaResolvida.map.exige)
       /\ IsNum(EntradaResolvida.map.dias)

(* C16: prazo_medio resolves its configuration to (requires_check,         *)
(* limit_days): without an entry for the fund or its type, (true, 720) for *)
(* type ETF, (false, 0) for FIA and FII, (true, 365) for any other type; a *)
(* numeric entry v gives (true, v); a structured entry gives 'exige' and   *)
(* 'dias'.  When requires_check is false the rule returns the passing      *)
(* result with zero values, otherwise a result whose limit is limit_days.  *)
C16_ParResolvido ==
    (/\ pc = "returned"
     /\ avaliador = "prazo_medio"
     /\ df0.cols = ColsRegras
     /\ EntradaDePrazo)
    => /\ ret.exc = ""
       /\ IF ParEsperado[1]
          THEN ret.res.limite = ParEsperado[2] /\ ret.res.mensagem # MSG_ISENTO
          ELSE ret.res = [regra |-> "prazo_medio", passou |-> TRUE, valor_atual |-> <<0, 1>>,
                          valor_proposto |-> <<0, 1>>, limite |-> <<0, 1>>,
                          mensagem |-> MSG_ISENTO]

(* C16 witness: a fund of type FII with no entry of its own (the mapping   *)
(* only names another fund) and rows to evaluate: exempt by default.       *)
C16_Witness ==
    /\ pc = "returned"
    /\ avaliador = "prazo_medio"
    /\ df0.cols = ColsRegras
    /\ IsMap(config) /\ DOMAIN config.map = {"BETA"}
    /\ TipoLido = "FII"
    /\ Len(ExFuturos(df0, ordem.fundo).rows) > 1
    /\ ret.exc = ""
    /\ ret.res.passou
    /\ ret.res.mensagem = MSG_ISENTO
    /\ ret.res.limite = <<0, 1>>

--------------------------------------------------------------------------
(* The term of one row (rules.py, _calc_prazo_row) on its own              *)

ColsTitulos == ColsRegras \cup {"database"}

Identificadores ==
    { "LFT - 01/09/2027", "LFT - sem data", "LFT20290901 - 210100", "LFTX", "LFT-01/09/2027",
      "NTN-B - 15/08/2026", "NTN-B - 31/08/2026", "NTN-B Over", "NTNB20260815 - 1",
      "NTNB - 15/08/2026",
      "C/C", "X" }

(* as-of dates: none, two before every maturity, one after the maturities  *)
(* of 2026 and 2027                                                        *)
DatasBase ==
    { <<>>, << <<2024, 9, 1>> >>, << <<2025, 12, 31>> >>, << <<2027, 10, 1>> >> }

(* the days on which the rules are run *)
Hojes == { <<2026, 1, 10>>, <<2026, 3, 1>>, <<2026, 9, 1>> }

LinhaTitulo(f, a, v, db, prazo) ==
    [fundo |-> f, ativo |-> a, valor |-> v, tipo_fundo |-> <<"FIM">>, tipo |-> <<>>,
     cat |-> <<"Titulos Publicos">>, cat2 |-> <<"Outros">>, catc |-> <<"Titulos Publicos">>,
     tpa |-> <<"TITULO">>, cnpj |-> <<"">>, prazo_dias |-> prazo, database |-> db]

(* <<categoria, categoria 2, tipo de ativo>> of a row: a government bond,  *)
(* units of a fixed-income fund, cash, cash on a current account, and a    *)
(* current account outside cash                                            *)
Classes ==
    { <<"Titulos Publicos", "Outros", "TITULO">>,
      <<"Renda Fixa", "Cotas de Fundos", "FUNDOS">>,
      <<"Caixa", "Outros", "COMPROMISSADA">>,
      <<"Caixa", "Outros", "CONTAS CORRENTES">>,
      <<"Outros", "Outros", "CONTAS CORRENTES">> }

LinhaClassificada(f, a, v, db, prazo, cl) ==
    [LinhaTitulo(f, a, v, db, prazo) EXCEPT !.cat = <<cl[1]>>, !.cat2 = <<cl[2]>>,
                                            !.catc = <<cl[1]>>, !.tpa = <<cl[3]>>]

LinhasTitulo ==
    {LinhaClassificada(f, a, v, db, prazo, cl) :
        f \in {"ALPHA", "PHIP11"}, a \in Identificadores, v \in {0, 100},
        db \in DatasBase, prazo \in {<<>>, <<30>>}, cl \in Classes}

InitPrazoLinha ==
    /\ pc = "calcula"
    /\ \E r \in LinhasTitulo, C \in {{}, {"database"}} :
          df0 = [cols |-> ColsTitulos \ C, rows |-> <<r>>]
    /\ today \in Hojes
    /\ ret = None
    /\ ordem = None /\ config = None /\ avaliador = ""
    /\ i = 1 /\ resultados = <<>> /\ erro = ""
    /\ heap = None /\ dfp = "none" /\ fundo = "" /\ ordens = <<>>
    /\ SemLote

(* _calc_prazo_row(row) *)
CalculaPrazo ==
    /\ pc = "calcula"
    /\ ret' = _calc_prazo_row(df0.cols, df0.rows[1])
    /\ pc' = "returned"
    /\ UNCHANGED <<df0, ordem, config, avaliador, i, resultados, erro>>
    /\ UNCHANGED foraRegras

NextPrazoLinha == CalculaPrazo

SpecPrazoLinha == InitPrazoLinha /\ [][NextPrazoLinha]_vars

(* C17: _calc_prazo_row returns a value >= 0 for every row, a bond whose   *)
(* maturity lies before the row's as-of date and a matured coupon bond     *)
(* included.                                                               *)
C17_PrazoNaoNegativo ==
    pc = "returned" => FGe(ret, Zero)

--------------------------------------------------------------------------
(* Two runs of aplicar_regras on the same inputs (engine.py, lines 39-61;  *)
(* rules.py, line 185)                                                     *)

(* fund ALPHA: two coupon bonds, a bond with an explicit maturity and a    *)
(* row with a stored term, as of 2025-12-31                                *)
LinhasDuasVezes ==
    << LinhaTitulo("ALPHA", "NTN-B - 15/08/2026", 100, << <<2025, 12, 31>> >>, <<>>),
       LinhaTitulo("ALPHA", "NTNB20260815 - 1", 100, << <<2025, 12, 31>> >>, <<>>),
       LinhaTitulo("ALPHA", "LFT - 01/09/2027", 100, << <<2025, 12, 31>> >>, <<>>),
       LinhaTitulo("ALPHA", "X", 50, << <<2025, 12, 31>> >>, <<30>>) >>

CarteirasDuasVezes ==
    {[cols |-> ColsTitulos, rows |-> Sub(LinhasDuasVezes, S)] : S \in SUBSET (1..4)}

OrdensDuasVezes ==
    [fundo : {"ALPHA"}, ativo : {"NTN-B - 15/08/2026", "X"}, quantidade : {2}, preco : {1},
     tipo : Tipos]

DocumentosDuasVezes ==
    { YMap([limits |-> YMap([prazo_medio |-> YMap([ALPHA |-> YNum(FInt(200))])])]),
      YMap([limits |-> YMap([prazo_medio |-> YMap([FIM |-> YMap([exige |-> YBool(TRUE),
                                                                 dias |-> YNum(FInt(400))])])])]),
      EmptyMap }

InitDuasVezes ==
    /\ pc = "primeira"
    /\ df0 \in CarteirasDuasVezes
    /\ ordem \in OrdensDuasVezes
    /\ config \in DocumentosDuasVezes
    /\ today \in Hojes
    /\ ret = None /\ resultados = <<>>
    /\ avaliador = "" /\ i = 1 /\ erro = ""
    /\ heap = None /\ dfp = "none" /\ fundo = "" /\ ordens = <<>>
    /\ SemLote

(* the first call of aplicar_regras(df, ordem, config) *)
PrimeiraAvaliacao ==
    /\ pc = "primeira"
    /\ ret' = aplicar_regras(df0, ordem, config).res
    /\ pc' = "entre"
    /\ UNCHANGED <<df0, ordem, config, avaliador, i, resultados, erro>>
    /\ UNCHANGED foraRegras

(* between the two calls the calendar moves on *)
PassaODia ==
    /\ pc = "entre"
    /\ \E d \in Hojes : Ordinal(d) > Ordinal(today) /\ today' = d
    /\ UNCHANGED <<pc, df0, ordem, config, avaliador, i, ret, resultados, erro>>
    /\ UNCHANGED <<heap, dfp, fundo, ordens, soLote>>

(* the second call, on the same snapshot, order and configuration *)
SegundaAvaliacao ==
    /\ pc = "entre"
    /\ resultados' = aplicar_regras(df0, ordem, config).res
    /\ pc' = "returned"
    /\ UNCHANGED <<df0, ordem, config, avaliador, i, ret, erro>>
    /\ UNCHANGED foraRegras

NextDuasVezes == PrimeiraAvaliacao \/ PassaODia \/ SegundaAvaliacao

SpecDuasVezes == InitDuasVezes /\ [][NextDuasVezes]_vars

FigurasDe(r) == <<r.passou, r.valor_atual, r.valor_proposto, r.limite>>

(* C18: two evaluations of the rules on the same snapshot, order and       *)
(* configuration yield results with equal pass/fail, current value,        *)
(* proposed value and limit: nothing else, the wall-clock date included,   *)
(* bears on the result.                                                    *)
C18_MesmoResultado ==
    pc = "returned"
    => /\ Len(ret) = Len(resultados)
       /\ \A k \in 1..Len(ret) : FigurasDe(ret[k]) = FigurasDe(resultados[k])

--------------------------------------------------------------------------
(* core/models.py: Ordem.__post_init__ (lines 29-41)                       *)

(* A Python float is [nan, v]: the number v, or NaN.  The arguments given  *)
(* for quantidade and preco are floats, strings or None.                   *)
Num(v) == [nan |-> FALSE, v |-> v]
NaN == [nan |-> TRUE, v |-> 0]

PyFloat(x) == [k |-> "float", f |-> x]
PyStr(x) == [k |-> "str", s |-> x]
PyNone == [k |-> "none"]

(* float(x) raises on None and on a text that is no number; it reads a     *)
(* number out of a text, blanks around it allowed, and "nan" as NaN        *)
FloatRaises(x) == x.k = "none" \/ (x.k = "str" /\ Strip(x.s) \notin {"2", "nan"})

PyFloatOf(x) ==
    IF x.k = "float" THEN x.f
    ELSE IF Strip(x.s) = "nan" THEN NaN ELSE Num(2)

(* a comparison with NaN is false *)
FLt(a, b) == ~a.nan /\ ~b.nan /\ a.v < b.v
FGeq(a, b) == ~a.nan /\ ~b.nan /\ a.v >= b.v

(* str(x) of the side handed in *)
PyStrOf(x) == IF x.k = "none" THEN "None" ELSE x.s

(* lines 29-41: the error raised, or the object once constructed *)
__post_init__(self) ==
    LET tipo == Lower(Strip(PyStrOf(self.tipo))) IN
    IF tipo \notin {"compra", "venda"} THEN Raise("ValueError: tipo deve ser 'compra' ou 'venda'")
    ELSE IF FloatRaises(self.quantidade) \/ FloatRaises(self.preco)
    THEN Raise("ValueError: quantidade/preco invalidos")
    ELSE IF FLt(PyFloatOf(self.quantidade), Num(0)) \/ FLt(PyFloatOf(self.preco), Num(0))
    THEN Raise("ValueError: quantidade e preco devem ser nao-negativos")
    ELSE Ok([fundo |-> Strip(self.fundo), ativo |-> Strip(self.ativo), tipo |-> tipo,
             quantidade |-> PyFloatOf(self.quantidade), preco |-> PyFloatOf(self.preco)])

(* the arguments of Ordem(...) *)
LadosDados == {PyStr(t) : t \in {"compra", "venda", "VENDA", " Venda", "hold", ""}} \cup {PyNone}

NumerosDados ==
    {PyFloat(Num(v)) : v \in {0 - 1, 0, 2}}
    \cup {PyFloat(NaN), PyStr(" 2 "), PyStr("abc"), PyStr("nan"), PyNone}

ArgumentosOrdem ==
    [fundo : {"ALPHA"}, ativo : {"X", " X "}, quantidade : NumerosDados, preco : NumerosDados,
     tipo : LadosDados]

InitOrdem ==
    /\ pc = "constroi"
    /\ ordem \in ArgumentosOrdem
    /\ ret = None
    /\ df0 = None /\ config = None /\ avaliador = ""
    /\ i = 1 /\ resultados = <<>> /\ erro = ""
    /\ heap = None /\ dfp = "none" /\ fundo = "" /\ ordens = <<>>
    /\ SemLote
    /\ RelogioFixo

(* Ordem(fundo, ativo, quantidade, preco, tipo) *)
Constroi ==
    /\ pc = "constroi"
    /\ ret' = __post_init__(ordem)
    /\ pc' = "returned"
    /\ UNCHANGED <<df0, ordem, config, avaliador, i, resultados, erro>>
    /\ UNCHANGED foraRegras

NextOrdem == Constroi

SpecOrdem == InitOrdem /\ [][NextOrdem]_vars

(* the side given, trimmed and lower-cased *)
LadoDado ==
    IF ordem.tipo.k = "none" THEN "none"
    ELSE CASE ordem.tipo.s \in {"VENDA", " Venda", "venda"} -> "venda"
           [] ordem.tipo.s = "compra" -> "compra"
           [] OTHER -> ordem.tipo.s

(* the argument is no number: None, or a text that does not spell one *)
NaoNumerico(x) == x.k = "none" \/ (x.k = "str" /\ x.s = "abc")
Negativo(x) == x.k = "float" /\ ~x.f.nan /\ x.f.v < 0

(* C19: the side is trimmed and lower-cased; the construction fails with a *)
(* ValueError exactly when the side is not 'compra' or 'venda', when       *)
(* quantity or price is not numeric, or when either is negative (0 is      *)
(* accepted); every constructed order has quantity >= 0, price >= 0 and a  *)
(* side in {compra, venda}.                                                *)
C19_OrdemValida ==
    pc = "returned"
    => /\ (ret.exc # "") =
             (\/ LadoDado \notin {"compra", "venda"}
              \/ NaoNumerico(ordem.quantidade) \/ NaoNumerico(ordem.preco)
              \/ Negativo(ordem.quantidade) \/ Negativo(ordem.preco))
       /\ ret.exc = ""
          => /\ ret.res.tipo = LadoDado
             /\ ret.res.tipo \in {"compra", "venda"}
             /\ FGeq(ret.res.quantidade, Num(0))
             /\ FGeq(ret.res.preco, Num(0))

--------------------------------------------------------------------------
(* The average term (checked under SpecAvaliador)                          *)

(* the rows of the fund outside Futuros whose computed term is positive *)
ComPrazo(rows_f) ==
    {k \in 1..Len(rows_f.rows) : FGt(_calc_prazo_row(rows_f.cols, rows_f.rows[k]), Zero)}

(* <<sum of valor, sum of valor * term>> over the rows S *)
RECURSIVE SomasEm(_, _)
SomasEm(S, rows_f) ==
    IF S = {} THEN <<0, Zero>>
    ELSE LET k == CHOOSE x \in S : TRUE
             resto == SomasEm(S \ {k}, rows_f)
             termo == _calc_prazo_row(rows_f.cols, rows_f.rows[k])
         IN  << rows_f.rows[k].valor + resto[1],
                FAdd(FMul(<<rows_f.rows[k].valor, 1>>, termo), resto[2]) >>

--------------------------------------------------------------------------
(* The proposed average term (checked under SpecAvaliador)                 *)

(* the rows of rows_f that carry the order's instrument *)
LinhasDoAtivo(rows_f, o) == {k \in 1..Len(rows_f.rows) : rows_f.rows[k].ativo = o.ativo}

(* the computed term of the order's instrument: that of its last row       *)
(* outside Futuros, 0 without one                                          *)
TermoDaOrdem(rows_f, o) ==
    IF LinhasDoAtivo(rows_f, o) = {} THEN <<0, 1>>
    ELSE _calc_prazo_row(rows_f.cols,
                         rows_f.rows[CHOOSE k \in LinhasDoAtivo(rows_f, o) :
                                        \A j \in LinhasDoAtivo(rows_f, o) : j <= k])

(* the order value, + for a buy and - for a sell *)
ValorAssinado(o) == IF o.tipo = "compra" THEN o.quantidade * o.preco ELSE 0 - o.quantidade * o.preco

(* <<weight sum, product sum>> after the order *)
SomasPropostas(rows_f, o) ==
    IF FGt(TermoDaOrdem(rows_f, o), <<0, 1>>)
    THEN << SomasEm(ComPrazo(rows_f), rows_f)[1] + ValorAssinado(o),
            FAdd(SomasEm(ComPrazo(rows_f), rows_f)[2],
                 FMul(<<ValorAssinado(o), 1>>, TermoDaOrdem(rows_f, o))) >>
    ELSE SomasEm(ComPrazo(rows_f), rows_f)

MediaDe(somas, senao) == IF somas[1] > 0 THEN FDiv(somas[2], <<somas[1], 1>>) ELSE senao

--------------------------------------------------------------------------
(* The average-term rule on a boolean entry (checked under SpecAvaliador)  *)

(* the entry the chain selects is a bare boolean *)
EntradaBooleana == (ChaveFundo \/ ChaveTipo) /\ IsBool(EntradaResolvida)

(* C22: with a boolean entry b, prazo_medio takes requires_check = b from  *)
(* the entry and keeps the default limit of the fund type: the entry true  *)
(* gives a result whose limit is 720 for type ETF and 365 for the other    *)
(* types checked by default, the entry false the exempt result.            *)
C22_BooleanoSoExige ==
    (/\ pc = "returned"
     /\ avaliador = "prazo_medio"
     /\ df0.cols = ColsRegras
     /\ EntradaBooleana
     /\ TipoLido \notin {"FIA", "FII"})
    => /\ ret.exc = ""
       /\ IF EntradaResolvida.bool
          THEN ret.res.limite = (IF TipoLido = "ETF" THEN <<720, 1>> ELSE <<365, 1>>)
          ELSE ret.res.passou /\ ret.res.mensagem = MSG_ISENTO

--------------------------------------------------------------------------
(* The two minimum-share rules on a bare number (checked under             *)
(* SpecAvaliador)                                                          *)

(* the entry the chain selects is a bare number, and the evaluator is one  *)
(* of the two minimum-share rules, on a snapshot with every column         *)
EntradaNumerica ==
    /\ avaliador \in {"enquadramento_cvm", "enquadramento_tributario"}
    /\ df0.cols = ColsRegras
    /\ ChaveFundo \/ ChaveTipo
    /\ IsNum(EntradaResolvida)

(* zero shares, and a verdict that compares zero with the minimum m *)
ZeroContraMinimo ==
    /\ ret.exc = ""
    /\ ret.res.valor_atual = Zero
    /\ ret.res.valor_proposto = Zero
    /\ ret.res.limite = EntradaResolvida.num
    /\ ret.res.passou = (EntradaResolvida.num[1] <= 0)

(* C23: with a bare numeric entry m the two minimum-share rules select no  *)
(* row: when the fund has a row left outside Futuros, the current and the  *)
(* proposed share are 0 and the rule passes exactly when m <= 0.           *)
C23_NumeroSemAlvo ==
    (pc = "returned" /\ EntradaNumerica /\ Len(ExFuturos(df0, ordem.fundo).rows) > 0)
    => ZeroContraMinimo

(* a fund holding X and Y, a purchase of X, and each side of the verdict   *)
C23_Witness ==
    /\ pc = "returned" /\ EntradaNumerica
    /\ Len(ExFuturos(df0, ordem.fundo).rows) = 2
    /\ ordem.ativo = "X" /\ ordem.tipo = "compra"
    /\ EntradaResolvida.num = Zero
    /\ ret.exc = "" /\ ret.res.passou /\ ret.res.valor_proposto = Zero

(* C23 as stated, for every portfolio: the same outcome also when the fund *)
(* has no row outside Futuros.                                             *)
C23_TodaCarteira ==
    (pc = "returned" /\ EntradaNumerica) => ZeroContraMinimo

--------------------------------------------------------------------------
(* The order of the rules of _calc_prazo_row (checked under SpecPrazoLinha) *)

(* the row handed to _calc_prazo_row and its fields as stored *)
LinhaDada == df0.rows[1]
CatDada == LinhaDada.cat[1]
Cat2Dada == LinhaDada.cat2[1]
TpaDada == LinhaDada.tpa[1]

CotasDeFundo == Cat2Dada = "Cotas de Fundos" /\ CatDada \in {"Multimercado", "Renda Fixa", "FIDC"}
CaixaForaDeConta == CatDada = "Caixa" /\ TpaDada # "CONTAS CORRENTES"
ContaCorrente == TpaDada = "CONTAS CORRENTES" /\ LinhaDada.ativo = "C/C"

(* identifiers of the pool that carry no bond prefix *)
SemPrefixoDeTitulo == LinhaDada.ativo \in {"C/C", "X"}

PrazoGuardado ==
    IF LinhaDada.prazo_dias # <<>> /\ LinhaDada.prazo_dias[1] > 0
    THEN <<LinhaDada.prazo_dias[1], 1>> ELSE <<0, 1>>

(* C24: the first matching rule wins: units of a Multimercado, Renda Fixa  *)
(* or FIDC fund get 366 whatever the identifier; otherwise cash outside a  *)
(* current account gets 1; otherwise the current account C/C gets 1;       *)
(* otherwise a dated LFT gets its days to maturity, not the stored term;   *)
(* a row that matches none of the rules gets its stored prazo_dias when    *)
(* present and > 0, else 0.                                                *)
C24_OrdemDasRegras ==
    pc = "returned" =>
        IF CotasDeFundo THEN ret = <<366, 1>>
        ELSE IF CaixaForaDeConta THEN ret = <<1, 1>>
        ELSE IF ContaCorrente THEN ret = <<1, 1>>
        ELSE IF SemPrefixoDeTitulo THEN ret = PrazoGuardado
        ELSE (LinhaDada.ativo = "LFT - 01/09/2027" /\ "database" \in df0.cols
              /\ LinhaDada.database = << <<2025, 12, 31>> >>)
             => ret = <<609, 1>>

(* units of a fixed-income fund whose identifier is a dated LFT, with a    *)
(* stored term of 30 days                                                  *)
C24_Witness ==
    /\ pc = "returned"
    /\ CotasDeFundo
    /\ LinhaDada.ativo = "LFT - 01/09/2027"
    /\ "database" \in df0.cols /\ LinhaDada.database # <<>>
    /\ LinhaDada.prazo_dias = <<30>>
    /\ ret = <<366, 1>>

--------------------------------------------------------------------------
(* The LFT rule of _calc_prazo_row (checked under SpecPrazoLinha)          *)

(* identifiers of the pool that start with LFT *)
ComPrefixoLFT ==
    LinhaDada.ativo \in {"LFT - 01/09/2027", "LFT - sem data", "LFT20290901 - 210100",
                         "LFTX", "LFT-01/09/2027"}

(* the maturity the identifier encodes in one of the two layouts *)
MaturidadeLFT ==
    CASE LinhaDada.ativo = "LFT - 01/09/2027" -> << <<2027, 9, 1>> >>
      [] LinhaDada.ativo = "LFT20290901 - 210100" -> << <<2029, 9, 1>> >>
      [] OTHER -> <<>>

DataBaseDada ==
    IF "database" \in df0.cols THEN LinhaDada.database ELSE <<>>

(* C25: a row outside rules 1-3 whose identifier starts with LFT gets the  *)
(* days from its as-of date to the maturity its identifier encodes, and 0  *)
(* when the maturity cannot be read or the as-of date is missing, whatever *)
(* its stored prazo_dias.                                                  *)
C25_LftSemDataZero ==
    (pc = "returned" /\ ComPrefixoLFT
     /\ ~CotasDeFundo /\ ~CaixaForaDeConta /\ ~ContaCorrente)
    => IF MaturidadeLFT # <<>> /\ DataBaseDada # <<>>
       THEN ret = <<Ordinal(MaturidadeLFT[1]) - Ordinal(DataBaseDada[1]), 1>>
       ELSE ret = <<0, 1>>

--------------------------------------------------------------------------
(* The scenario of the LFT maturing on 2027-09-01 (checked under           *)
(* SpecPrazoLinha)                                                         *)

(* the row of the scenario: outside rules 1-3, as of 2024-09-01 *)
LftDoCenario ==
    /\ pc = "returned"
    /\ LinhaDada.ativo = "LFT - 01/09/2027"
    /\ DataBaseDada = << <<2024, 9, 1>> >>
    /\ ~CotasDeFundo /\ ~CaixaForaDeConta /\ ~ContaCorrente

(* C26: the row "LFT - 01/09/2027" as of 2024-09-01, outside rules 1-3,    *)
(* gets the calendar days from 2024-09-01 to 2027-09-01, which are 1095,   *)
(* whatever the day of the run, the value and the stored term of the row.  *)
C26_DiasDoCenario == LftDoCenario => ret = <<1095, 1>>

(* the scenario run on 2026-09-01 on a row worth 100 with a stored term *)
C26_Witness ==
    /\ LftDoCenario
    /\ today = <<2026, 9, 1>> /\ LinhaDada.valor = 100 /\ LinhaDada.prazo_dias = <<30>>
    /\ ret = <<1095, 1>>

(* C26 as stated: the scenario gives 1096 days.                            *)
C26_Dias1096 == LftDoCenario => ret = <<1096, 1>>

--------------------------------------------------------------------------
(* The coupon schedule of the NTN-B rows (checked under SpecPrazoLinha)    *)

(* the maturity the identifier of an NTN-B row encodes, as the rule for    *)
(* the row's fund reads it                                                 *)
MaturidadeNTNB ==
    CASE LinhaDada.ativo = "NTN-B - 15/08/2026" -> << <<2026, 8, 15>> >>
      [] LinhaDada.ativo = "NTN-B - 31/08/2026" -> << <<2026, 8, 31>> >>
      [] LinhaDada.ativo = "NTNB20260815 - 1" /\ LinhaDada.fundo # "PHIP11" -> << <<2026, 8, 15>> >>
      [] LinhaDada.ativo = "NTNB - 15/08/2026" /\ LinhaDada.fundo = "PHIP11" -> << <<2026, 8, 15>> >>
      [] OTHER -> <<>>

ComPrefixoNTNB ==
    LinhaDada.ativo \in {"NTN-B - 15/08/2026", "NTN-B - 31/08/2026", "NTNB20260815 - 1",
                         "NTNB - 15/08/2026"}

(* the maturity moved back six months n times, one step at a time *)
RECURSIVE SeisMesesAtras(_, _)
SeisMesesAtras(d, n) == IF n = 0 THEN d ELSE SeisMesesAtras(MaisMeses(d, 0 - 6), n - 1)

(* the number of steps back until a date on or before today *)
PassosAte(mat) ==
    CHOOSE n \in 0..4 :
        /\ Ordinal(SeisMesesAtras(mat, n)) <= Ordinal(today)
        /\ \A m \in 0..(n - 1) : Ordinal(SeisMesesAtras(mat, m)) > Ordinal(today)

(* the k-th coupon date forward from the anchor *)
RECURSIVE DataDoCupom(_, _)
DataDoCupom(ancora, k) == IF k = 0 THEN ancora ELSE MaisMeses(DataDoCupom(ancora, k - 1), 6)

(* the k-th coupon of a row worth v: 3% of v, then 97% of the one before *)
RECURSIVE ValorDoCupom(_, _)
ValorDoCupom(v, k) ==
    IF k = 1 THEN Frac(3 * v, 100) ELSE FMul(ValorDoCupom(v, k - 1), Frac(97, 100))

RECURSIVE SomaDe(_, _)
SomaDe(f, n) == IF n = 0 THEN <<0, 1>> ELSE FAdd(SomaDe(f, n - 1), f[n])

(* the effective term of a row worth v > 0 maturing on mat, as of ref *)
PrazoEfetivo(v, mat, ref) ==
    LET n == PassosAte(mat)
        ancora == SeisMesesAtras(mat, n)
        dias(d) == Frac(Ordinal(d) - Ordinal(ref), 1)
        cupons == [k \in 1..n |-> ValorDoCupom(v, k)]
        termos == [k \in 1..n |-> FMul(cupons[k], dias(DataDoCupom(ancora, k)))]
        resto == FAdd(Frac(v, 1), FMul(Frac(0 - 1, 1), SomaDe(cupons, n)))
        principal == IF resto[1] > 0 THEN resto ELSE <<0, 1>>
    IN  FDiv(FAdd(SomaDe(termos, n), FMul(principal, dias(mat))), Frac(v, 1))

(* C27: an NTN-B row outside rules 1-3 gets 0 when its value is <= 0 or    *)
(* its maturity or as-of date is missing; otherwise, with n the number of  *)
(* six-month steps back from the maturity to a date on or before today,    *)
(* the n coupons dated six months apart forward from that date, the first  *)
(* 3% of the value and each next 97% of the one before, it gets            *)
(* (sum of coupon * days from the as-of date to its date + max(value -     *)
(* sum of coupons, 0) * days from the as-of date to maturity) / value.     *)
C27_PrazoComCupons ==
    (pc = "returned" /\ ComPrefixoNTNB
     /\ ~CotasDeFundo /\ ~CaixaForaDeConta /\ ~ContaCorrente)
    => IF MaturidadeNTNB = <<>> \/ DataBaseDada = <<>> \/ LinhaDada.valor <= 0
       THEN ret = <<0, 1>>
       ELSE ret = PrazoEfetivo(LinhaDada.valor, MaturidadeNTNB[1], DataBaseDada[1])

(* the bond maturing on 2026-08-31, worth 100 as of 2025-12-31, run on     *)
(* 2026-01-10: two coupons, of 3 on 2026-02-28 and of 2.91 on 2026-08-28   *)
C27_Witness ==
    /\ pc = "returned"
    /\ LinhaDada.ativo = "NTN-B - 31/08/2026" /\ LinhaDada.valor = 100
    /\ DataBaseDada = << <<2025, 12, 31>> >>
    /\ today = <<2026, 1, 10>>
    /\ ~CotasDeFundo /\ ~CaixaForaDeConta /\ ~ContaCorrente
    /\ PassosAte(<<2026, 8, 31>>) = 2
    /\ SeisMesesAtras(<<2026, 8, 31>>, 2) = <<2025, 8, 28>>
    /\ ret = Frac(3 * 59 * 100 + 291 * 240 + 9409 * 243, 10000)

--------------------------------------------------------------------------
(* The evaluators and the DataFrame they are handed, run in any order.     *)
(* heap.arg is the object passed as df, heap.obj the one a selection       *)
(* makes, heap.df_f the object the local name df_f is bound to.            *)

COL_PRAZO_CALC == "__prazo_calc__"

(* the name df_f bound to the argument itself, nothing selected *)
SemCopia(h, f) == [h EXCEPT !.df_f = "arg"]

(* rules.py lines 289, 334, 392: df.loc[df["nome do fundo"] == f].copy()   *)
LocCopia(h, f) == [h EXCEPT !.obj = DoFundo(h.arg, f), !.df_f = "obj"]

(* rules.py lines 50-55 on the object df_f names: the argument itself is   *)
(* returned when it has no column "categoria 2", a new object otherwise    *)
FiltroNoHeap(h) ==
    IF COL_CAT2 \notin h[h.df_f].cols THEN h
    ELSE [h EXCEPT !.obj = _filtro_futuros(h[h.df_f]), !.df_f = "obj"]

(* rules.py lines 336-337: the selection by tax ID, a new object *)
ExcluiCnpj(h, f) ==
    IF COL_CNPJ \in h[h.df_f].cols /\ _is_in_set_norm(f, _CNPJ_EXCLUDE_FUNDS)
    THEN [h EXCEPT !.obj = Filtra(h[h.df_f],
                                  [k \in 1..Len(h[h.df_f].rows) |->
                                      Strip(Texto(h[h.df_f].rows[k].cnpj)) # _TARGET_CNPJ]),
                   !.df_f = "obj"]
    ELSE h

(* rules.py lines 399-400: df_f["__prazo_calc__"] = ..., a column added to *)
(* the object df_f names                                                   *)
EscreveColuna(h, col) == [h EXCEPT ![h.df_f].cols = @ \cup {col}]

(* the evaluator left before its line 289 / 334 / 392: it raised on the    *)
(* fund type, on the entry or on the fund column, or the fund is exempt    *)
AntesDoFiltro(out) ==
    \/ out.exc \in {"KeyError: nome do fundo", "AttributeError: get", "TypeError: float"}
    \/ out.exc = "" /\ out.res.mensagem = MSG_ISENTO

(* what the evaluator nome, whose outcome is out, does to the objects *)
EfeitoNoHeap(nome, h, o, out) ==
    IF AntesDoFiltro(out) THEN h
    ELSE IF nome = "enquadramento_cvm" THEN FiltroNoHeap(LocCopia(h, o.fundo))
    ELSE IF nome = "enquadramento_tributario"
    THEN ExcluiCnpj(FiltroNoHeap(LocCopia(h, o.fundo)), o.fundo)
    ELSE IF out.exc = "" /\ out.res.mensagem = MSG_SEM_DADOS
    THEN FiltroNoHeap(LocCopia(h, o.fundo))
    ELSE EscreveColuna(FiltroNoHeap(LocCopia(h, o.fundo)), COL_PRAZO_CALC)

(* documents whose limits are a mapping, the same for the two share rules *)
DocumentosLeitura ==
    {YMap([limits |-> YMap([enquadramento_cvm |-> a, enquadramento_tributario |-> a,
                            prazo_medio |-> c])]) :
        a \in MapasEnquadramento, c \in MapasPrazo}
    \cup { YNull, EmptyMap }

InitLeitura ==
    /\ pc = "laco"
    /\ df0 \in CarteirasRegras
    /\ heap = [arg |-> df0, obj |-> None, df_f |-> "none"]
    /\ ordem \in {o \in OrdensRegras : o.tipo = "compra"}
    /\ config \in DocumentosLeitura
    /\ i = 1
    /\ resultados = <<>>
    /\ erro = ""
    /\ ret = None
    /\ avaliador = ""
    /\ dfp = "none" /\ fundo = "" /\ ordens = <<>>
    /\ SemLote
    /\ RelogioFixo

JaRodou(nome) == \E k \in 1..Len(resultados) : resultados[k].regra = nome

(* engine.py lines 44-60 for the rule nome, on the object as it is now *)
Executa(nome) ==
    /\ pc = "laco"
    /\ ~JaRodou(nome)
    /\ resultados' =
          Append(resultados,
                 Tenta(nome, heap.arg, ordem, Get(Limits(config), nome, EmptyMap)).res)
    /\ heap' = EfeitoNoHeap(nome, heap, ordem,
                      Chama(nome, heap.arg, ordem, Get(Limits(config), nome, EmptyMap)))
    /\ avaliador' = nome
    /\ i' = i + 1
    /\ UNCHANGED <<pc, df0, ordem, config, ret, erro, dfp, fundo, ordens, soLote, today>>

NextLeitura == \E k \in 1..3 : Executa(RULES_REGISTRY[k])

SpecLeitura == InitLeitura /\ [][NextLeitura]_vars

(* C28: whichever evaluators have run, in whichever order, the object they *)
(* were handed holds what it held at the start, and the result of each is  *)
(* the one it gives on the untouched snapshot: selections and the column   *)
(* of computed terms live in other objects.                                *)
C28_SoLeitura ==
    /\ heap.arg = df0
    /\ \A k \in 1..Len(resultados) :
          resultados[k] =
              Tenta(resultados[k].regra, df0, ordem,
                    Get(Limits(config), resultados[k].regra, EmptyMap)).res

(* prazo_medio has just run, after one of the share rules, on a snapshot   *)
(* without the column "categoria 2": the column of computed terms was      *)
(* added to the selection, which is not the object handed in               *)
C28_Witness ==
    /\ Len(resultados) = 2
    /\ avaliador = "prazo_medio"
    /\ COL_CAT2 \notin df0.cols
    /\ heap.df_f = "obj"
    /\ COL_PRAZO_CALC \in heap.obj.cols
    /\ COL_PRAZO_CALC \notin heap.arg.cols
    /\ resultados[2].mensagem = MSG_DIAS

--------------------------------------------------------------------------
(* The proposed snapshot of a validated batch (checked under SpecLote)     *)

(* value of instrument a held by the selected fund in the snapshot d *)
RECURSIVE ValorEm(_, _, _)
ValorEm(rows, a, k) ==
    IF k > Len(rows) THEN 0
    ELSE (IF rows[k].fundo = session_state.fundo /\ rows[k].ativo = a THEN rows[k].valor ELSE 0)
         + ValorEm(rows, a, k + 1)

(* the snapshot aplicar_ordens_no_df returned to the call c of the handler *)
Proposta(c) == aplicar_ordens_no_df(c.df, session_state.fundo, c.ordens).df

(* C29: every batch that passed the sale validation and was applied leaves *)
(* no instrument the fund held with a value >= 0 below minus the           *)
(* tolerance in the proposed snapshot, several sells of one instrument in  *)
(* the batch included.                                                     *)
C29_VendasCabemNaPosicao ==
    \A k \in 1..Len(chamadas) :
        (chamadas[k].op = "aplicar_ordens_no_df" /\ chamadas[k].fim = "return")
        => \A a \in {chamadas[k].df.rows[j].ativo : j \in 1..Len(chamadas[k].df.rows)} :
              Detido(a) >= 0 =>
                  ValorEm(Proposta(chamadas[k]).rows, a, 1) >= 0 - Tol

--------------------------------------------------------------------------
(* aplicar_regras and the shape of the document (checked under SpecRegras) *)

(* C30: aplicar_regras never raises, whatever the document: empty or null, *)
(* without limits, with limits null or not a mapping, with a rule's entry  *)
(* missing or of an unexpected shape; a call that has ended has returned   *)
(* three results.                                                          *)
C30_NuncaLevanta ==
    /\ pc # "raised"
    /\ pc = "returned" => Len(ret) = 3

====
